---- MODULE Spec2Model ----
(***************************************************************************)
(* Model of the todo-management API (Next.js route handlers over a Prisma  *)
(* store).  The state is the four tables of the relational store (users,   *)
(* todos, files, notifications), the upload directory, and the last        *)
(* request/response pair.  An action is one route handler, run from its    *)
(* authentication step to its response, or, for the handlers whose store   *)
(* accesses are interleaved with those of other requests, the part of the  *)
(* handler up to a store access and the part after it.                     *)
(***************************************************************************)
EXTENDS Integers, Sequences, FiniteSets, TLC

\* ------------------------------------------------------------------------
\* Bounds of the model
\* ------------------------------------------------------------------------
\* Number of requests served in one run.
MaxRequests == 2

\* ------------------------------------------------------------------------
\* Values
\* ------------------------------------------------------------------------
\* JavaScript strings are sequences of characters; undefined and null are
\* one-element sequences that are no string over Chars.
Chars == {" ", "a", "b", "d", "A", "B", "1", "@", "."}
Undefined == <<"undefined">>
Null == <<"null">>

\* Scalar (enum, date, id) values are TLA+ strings; these two stand for a
\* field that is missing from the request body and for SQL NULL.
NoValue == "undefined"
NullValue == "null"

\* A todoId column that is NULL, and a position field missing from a body.
NoTodo == 0
NoPosition == -1

\* The file of a request that names none
NoFileId == 0

\* The notification of a request that names none
NoNotification == 0

\* bcrypt: a hash is compared by hashing the candidate again
hashPassword(password) == <<"hash">> \o password

comparePassword(password, hash) == hash = hashPassword(password)

\* The password of the seeded accounts
SeedPassword == <<"a", "d", "1">>

\* The users created by the seed script.  The local part of a seeded email is
\* one lowercase symbol.
SeedUsers ==
    [u \in {"admin", "john", "jane"} |->
        [role |-> IF u = "admin" THEN "ADMIN" ELSE "USER",
         isActive |-> TRUE,
         email |-> <<u, "@", "b", ".", "d">>,
         name |-> <<u>>,
         password |-> hashPassword(SeedPassword),
         profilePic |-> Null,
         lastLogin |-> NullValue]]

UserIds == DOMAIN SeedUsers

TodoStatus == {"PENDING", "IN_PROGRESS", "COMPLETED", "CANCELLED"}

\* profileDir is the directory uploads/profiles; inflight holds the requests
\* that have read the store and have not yet written to it
VARIABLES users, todos, files, notifications, disk, nextTodoId, nextNotifId,
          nextFileId, lastReq, requests, profileDir, inflight

vars == <<users, todos, files, notifications, disk, nextTodoId, nextNotifId,
          nextFileId, lastReq, requests, profileDir, inflight>>

store == <<users, todos, files, notifications, disk>>

\* ------------------------------------------------------------------------
\* String helpers (String.prototype.trim, truthiness)
\* ------------------------------------------------------------------------
RECURSIVE TrimLeft(_)
TrimLeft(s) ==
    IF s # <<>> /\ Head(s) = " " THEN TrimLeft(Tail(s)) ELSE s

RECURSIVE TrimRight(_)
TrimRight(s) ==
    IF s # <<>> /\ s[Len(s)] = " " THEN TrimRight(SubSeq(s, 1, Len(s) - 1)) ELSE s

Trim(s) == TrimRight(TrimLeft(s))

\* `x?.trim() || null`
TrimOrNull(s) ==
    IF s = Undefined \/ s = Null THEN Null
    ELSE IF Trim(s) = <<>> THEN Null ELSE Trim(s)

\* `new Date(s)`: the timestamp of a date string, "NaN" for an unparsable one
ParseDate(s) == IF s = "bad" THEN "NaN" ELSE s

\* ------------------------------------------------------------------------
\* Store helpers
\* ------------------------------------------------------------------------
Without(f, ks) == [k \in DOMAIN f \ ks |-> f[k]]

\* Mutant: the foreign key does not cascade
CascadeTodos_Restrict(f, ts) == f

\* ON DELETE CASCADE of files.todoId and notifications.todoId
CascadeTodos(f, ts) == Without(f, {k \in DOMAIN f : f[k].todoId \in ts})

\* Largest element of a non-empty set of integers
Max(S) == CHOOSE m \in S : \A x \in S : x <= m

\* ------------------------------------------------------------------------
\* middleware/auth.ts
\* ------------------------------------------------------------------------
\* authenticateUser: the token names a user id; the user is looked up again
authenticateUser(tok) ==
    /\ tok \in DOMAIN users
    /\ users[tok].isActive

requireAdmin(tok) == users[tok].role = "ADMIN"

\* Mutant: the relation to the todo is not checked
canAccessTodo_AnyUser(userId, todoId) == todoId \in DOMAIN todos

canAccessTodo(userId, todoId) ==
    IF todoId \notin DOMAIN todos THEN FALSE
    ELSE todos[todoId].creatorId = userId \/ todos[todoId].assigneeId = userId

\* ------------------------------------------------------------------------
\* Responses
\* ------------------------------------------------------------------------
\* The last request and its response: the handler, the user of the token, the
\* todo and the user it names, the status code, and whether a call of
\* prisma.notification.create threw while it ran
Reply(op, tok, todoId, userId, code, threw) ==
    /\ lastReq' = [op |-> op, actor |-> tok, todoId |-> todoId, userId |-> userId,
                   code |-> code, threw |-> threw, fileId |-> NoFileId, detail |-> <<>>,
                   notifId |-> NoNotification]
    /\ requests' = requests + 1

\* The response of a file handler: the file id or file name of the request
\* and the messages of the response (error message, warnings)
ReplyFile(op, tok, todoId, fileId, code, detail) ==
    /\ lastReq' = [op |-> op, actor |-> tok, todoId |-> todoId, userId |-> "none",
                   code |-> code, threw |-> FALSE, fileId |-> fileId, detail |-> detail,
                   notifId |-> NoNotification]
    /\ requests' = requests + 1

\* The response of a handler that runs from its first to its last store call
\* without another request in between and does not write to uploads/profiles
Respond(op, tok, todoId, userId, code, threw) ==
    /\ Reply(op, tok, todoId, userId, code, threw)
    /\ UNCHANGED <<profileDir, inflight>>

Init ==
    /\ users = SeedUsers
    /\ todos = <<>>
    /\ files = <<>>
    /\ notifications = <<>>
    /\ disk = {}
    /\ nextTodoId = 1
    /\ nextNotifId = 1
    /\ nextFileId = 1
    /\ lastReq = [op |-> "none", actor |-> "none", todoId |-> NoTodo, userId |-> "none",
                  code |-> 0, threw |-> FALSE, fileId |-> NoFileId, detail |-> <<>>,
                  notifId |-> NoNotification]
    /\ requests = 0
    /\ profileDir = {}
    /\ inflight = <<>>


\* ------------------------------------------------------------------------
\* Request inputs
\* ------------------------------------------------------------------------
TitleLimit == 255

TitleInputs == {Undefined, <<>>, <<"a">>, <<"b">>, <<"a", " ">>}
DescriptionInputs == {Undefined, Null, <<>>, <<"d">>}
StatusInputs == {NoValue} \cup TodoStatus
PriorityInputs == {NoValue, "MEDIUM", "HIGH"}
DueDateInputs == {NoValue, NullValue, "", "bad", "past", "D1"}
PositionInputs == {NoPosition, 1, 2}
AssigneeInputs == {NoValue} \cup UserIds

\* Ids a request can name: every id handed out so far and one that is not
RequestTodoIds == 1..nextTodoId

\* `if (x)` on a string or date-string field
Truthy(x) == x \notin {NoValue, NullValue, ""}

\* ------------------------------------------------------------------------
\* Notification emitter
\* ------------------------------------------------------------------------
Notification(title, type, userId, todoId) ==
    [title |-> title, type |-> type, userId |-> userId, todoId |-> todoId,
     isRead |-> FALSE, readAt |-> NullValue]

\* prisma.notification.create for each record of the sequence ns, in order;
\* the call numbered failAt (0: none) throws and ends the sequence
RECURSIVE CreateNotifications(_, _, _, _)
CreateNotifications(table, nextId, ns, failAt) ==
    IF ns = <<>> \/ failAt = 1 THEN [table |-> table, nextId |-> nextId]
    ELSE CreateNotifications(table @@ (nextId :> Head(ns)), nextId + 1, Tail(ns),
                             IF failAt = 0 THEN 0 ELSE failAt - 1)

Threw(ns, failAt) == failAt >= 1 /\ failAt <= Len(ns)

\* The slot of a request that starts: the least one no request in flight holds
FreeSlot == CHOOSE p \in 1..(Cardinality(DOMAIN inflight) + 1) : p \notin DOMAIN inflight

\* ------------------------------------------------------------------------
\* POST /api/todos
\* ------------------------------------------------------------------------
\* Mutant: the largest position is taken over the todos of all assignees
NextPosition_AllTodos(assigneeId) ==
    LET ps == {todos[t].position : t \in DOMAIN todos}
    IN  (IF ps = {} THEN 0 ELSE Max(ps)) + 1

\* (lastTodo?.position || 0) + 1 over the todos of the assignee
NextPosition(assigneeId) ==
    LET ps == {todos[t].position : t \in {x \in DOMAIN todos : todos[x].assigneeId = assigneeId}}
    IN  (IF ps = {} THEN 0 ELSE Max(ps)) + 1

NewTodo(tok, body) ==
    [title |-> Trim(body.title),
     description |-> TrimOrNull(body.description),
     status |-> "PENDING",
     priority |-> IF Truthy(body.priority) THEN body.priority ELSE "MEDIUM",
     dueDate |-> IF Truthy(body.dueDate) THEN ParseDate(body.dueDate) ELSE NullValue,
     position |-> NextPosition(body.assigneeId),
     creatorId |-> tok,
     assigneeId |-> body.assigneeId,
     completedAt |-> NullValue]

\* Mutant: the assignee is notified even when they are the creator
CreateTodoNotifications_Always(tok, body, todoId) ==
    <<Notification("New Todo Assigned", "todo_assigned", body.assigneeId, todoId)>>

\* The notifications a creation asks for
CreateTodoNotifications(tok, body, todoId) ==
    IF body.assigneeId # tok
    THEN <<Notification("New Todo Assigned", "todo_assigned", body.assigneeId, todoId)>>
    ELSE <<>>

CreateTodo(tok, body, failAt) ==
    /\ UNCHANGED <<users, files, disk, nextFileId>>
    /\ IF ~authenticateUser(tok)
       THEN /\ Respond("CreateTodo", tok, NoTodo, "none", 401, FALSE)
            /\ UNCHANGED <<todos, notifications, nextTodoId, nextNotifId>>
       ELSE IF \/ body.title \in {Undefined, <<>>}
               \/ Trim(body.title) = <<>>
               \/ Len(body.title) > TitleLimit
               \/ ~Truthy(body.assigneeId)
       THEN /\ Respond("CreateTodo", tok, NoTodo, "none", 400, FALSE)
            /\ UNCHANGED <<todos, notifications, nextTodoId, nextNotifId>>
       ELSE IF body.assigneeId \notin DOMAIN users
       THEN /\ Respond("CreateTodo", tok, NoTodo, "none", 404, FALSE)
            /\ UNCHANGED <<todos, notifications, nextTodoId, nextNotifId>>
       ELSE IF \/ ~users[body.assigneeId].isActive
               \/ Truthy(body.dueDate) /\ ParseDate(body.dueDate) = "NaN"
               \/ Truthy(body.dueDate) /\ ParseDate(body.dueDate) = "past"
       THEN /\ Respond("CreateTodo", tok, NoTodo, "none", 400, FALSE)
            /\ UNCHANGED <<todos, notifications, nextTodoId, nextNotifId>>
       ELSE LET ns == CreateTodoNotifications(tok, body, nextTodoId)
                made == CreateNotifications(notifications, nextNotifId, ns, failAt)
            IN  /\ todos' = todos @@ (nextTodoId :> NewTodo(tok, body))
                /\ nextTodoId' = nextTodoId + 1
                /\ notifications' = made.table
                /\ nextNotifId' = made.nextId
                /\ Respond("CreateTodo", tok, nextTodoId, "none",
                           IF Threw(ns, failAt) THEN 500 ELSE 201, Threw(ns, failAt))

\* GET /api/todos/[id]
GetTodo(tok, todoId) ==
    /\ UNCHANGED <<store, nextTodoId, nextNotifId, nextFileId>>
    /\ IF ~authenticateUser(tok) THEN Respond("GetTodo", tok, todoId, "none", 401, FALSE)
       ELSE IF ~canAccessTodo(tok, todoId) THEN Respond("GetTodo", tok, todoId, "none", 403, FALSE)
       ELSE IF todoId \notin DOMAIN todos THEN Respond("GetTodo", tok, todoId, "none", 404, FALSE)
       ELSE Respond("GetTodo", tok, todoId, "none", 200, FALSE)

\* ------------------------------------------------------------------------
\* PUT /api/todos/[id]
\* ------------------------------------------------------------------------
\* parsedDueDate: NoValue when the body has no dueDate, NullValue to clear it
ParsedDueDate(body) ==
    IF body.dueDate = NoValue THEN NoValue
    ELSE IF body.dueDate = NullValue \/ body.dueDate = "" THEN NullValue
    ELSE ParseDate(body.dueDate)

\* updateData: the columns the request writes, as a function from column
\* names to their new values
UpdateData(cur, body) ==
    (IF body.title # Undefined /\ body.title # cur.title
     THEN [title |-> Trim(body.title)] ELSE <<>>)
    @@
    (IF body.description # Undefined /\ body.description # cur.description
     THEN [description |-> TrimOrNull(body.description)] ELSE <<>>)
    @@
    (IF body.status # NoValue /\ body.status # cur.status
     THEN IF body.status = "COMPLETED"
          THEN [status |-> body.status, completedAt |-> "now"]
          ELSE IF cur.status = "COMPLETED"
          THEN [status |-> body.status, completedAt |-> NullValue]
          ELSE [status |-> body.status]
     ELSE <<>>)
    @@
    (IF body.priority # NoValue /\ body.priority # cur.priority
     THEN [priority |-> body.priority] ELSE <<>>)
    @@
    (IF ParsedDueDate(body) # NoValue /\ ParsedDueDate(body) # cur.dueDate
     THEN [dueDate |-> ParsedDueDate(body)] ELSE <<>>)
    @@
    (IF body.position # NoPosition
     THEN [position |-> body.position] ELSE <<>>)

\* changes: the tracked columns among those of updateData
Changes(data) == DOMAIN data \ {"completedAt", "position"}

\* prisma.todo.update: the row with the columns of data overwritten
ApplyUpdate(cur, data) ==
    [f \in DOMAIN cur |-> IF f \in DOMAIN data THEN data[f] ELSE cur[f]]

\* The notifications an update asks for, in the order of the calls
UpdateTodoNotifications(tok, cur, body, todoId) ==
    (IF Changes(UpdateData(cur, body)) # {} /\ cur.assigneeId # tok
     THEN <<Notification("Todo Updated", "todo_updated", cur.assigneeId, todoId)>>
     ELSE <<>>)
    \o
    (IF body.status = "COMPLETED" /\ cur.assigneeId # tok
     THEN <<Notification("Todo Completed", "todo_completed", cur.assigneeId, todoId)>>
     ELSE <<>>)

UpdateTodo(tok, todoId, body, failAt) ==
    /\ UNCHANGED <<users, files, disk, nextTodoId, nextFileId>>
    /\ IF ~authenticateUser(tok)
       THEN /\ Respond("UpdateTodo", tok, todoId, "none", 401, FALSE)
            /\ UNCHANGED <<todos, notifications, nextNotifId>>
       ELSE IF ~canAccessTodo(tok, todoId)
       THEN /\ Respond("UpdateTodo", tok, todoId, "none", 403, FALSE)
            /\ UNCHANGED <<todos, notifications, nextNotifId>>
       ELSE IF \/ body.title # Undefined /\ (body.title = <<>> \/ Trim(body.title) = <<>>)
               \/ body.title # Undefined /\ Len(body.title) > TitleLimit
               \/ ParsedDueDate(body) = "NaN"
       THEN /\ Respond("UpdateTodo", tok, todoId, "none", 400, FALSE)
            /\ UNCHANGED <<todos, notifications, nextNotifId>>
       ELSE IF todoId \notin DOMAIN todos
       THEN /\ Respond("UpdateTodo", tok, todoId, "none", 404, FALSE)
            /\ UNCHANGED <<todos, notifications, nextNotifId>>
       ELSE IF DOMAIN UpdateData(todos[todoId], body) = {}
       THEN /\ Respond("UpdateTodo", tok, todoId, "none", 400, FALSE)
            /\ UNCHANGED <<todos, notifications, nextNotifId>>
       ELSE LET cur == todos[todoId]
                ns == UpdateTodoNotifications(tok, cur, body, todoId)
                made == CreateNotifications(notifications, nextNotifId, ns, failAt)
            IN  /\ todos' = [todos EXCEPT ![todoId] = ApplyUpdate(cur, UpdateData(cur, body))]
                /\ notifications' = made.table
                /\ nextNotifId' = made.nextId
                /\ Respond("UpdateTodo", tok, todoId, "none",
                           IF Threw(ns, failAt) THEN 500 ELSE 200, Threw(ns, failAt))

\* ------------------------------------------------------------------------
\* PUT /api/todos/[id]/status
\* ------------------------------------------------------------------------
StatusEndpointValues == {"PENDING", "IN_PROGRESS", "COMPLETED"}

\* data: { status }
StatusUpdateData(cur, status) == [status |-> status]

UpdateTodoStatus(tok, todoId, status) ==
    /\ UNCHANGED <<users, files, notifications, disk, nextTodoId, nextNotifId, nextFileId>>
    /\ IF ~authenticateUser(tok)
       THEN /\ Respond("UpdateTodoStatus", tok, todoId, "none", 401, FALSE)
            /\ UNCHANGED todos
       ELSE IF ~canAccessTodo(tok, todoId)
       THEN /\ Respond("UpdateTodoStatus", tok, todoId, "none", 403, FALSE)
            /\ UNCHANGED todos
       ELSE IF ~Truthy(status) \/ status \notin StatusEndpointValues
       THEN /\ Respond("UpdateTodoStatus", tok, todoId, "none", 400, FALSE)
            /\ UNCHANGED todos
       ELSE /\ todos' = [todos EXCEPT ![todoId] =
                            ApplyUpdate(todos[todoId], StatusUpdateData(todos[todoId], status))]
            /\ Respond("UpdateTodoStatus", tok, todoId, "none", 200, FALSE)

\* ------------------------------------------------------------------------
\* DELETE /api/todos/[id]
\* ------------------------------------------------------------------------
\* Mutant: every participant may delete
canDeleteTodo_Participant(userId, todoId) ==
    todos[todoId].creatorId = userId \/ todos[todoId].assigneeId = userId

\* Only the creator can delete the todo
canDeleteTodo(userId, todoId) == todos[todoId].creatorId = userId

\* Mutant: the assignee is notified even when they delete their own todo
DeleteTodoNotifications_Always(tok, cur) ==
    <<Notification("Todo Deleted", "todo_updated", cur.assigneeId, NoTodo)>>

\* The notifications a deletion asks for
DeleteTodoNotifications(tok, cur) ==
    IF cur.assigneeId # tok
    THEN <<Notification("Todo Deleted", "todo_updated", cur.assigneeId, NoTodo)>>
    ELSE <<>>

DeleteTodo(tok, todoId, failAt) ==
    /\ UNCHANGED <<users, disk, nextTodoId, nextFileId>>
    /\ IF ~authenticateUser(tok)
       THEN /\ Respond("DeleteTodo", tok, todoId, "none", 401, FALSE)
            /\ UNCHANGED <<todos, files, notifications, nextNotifId>>
       ELSE IF ~canAccessTodo(tok, todoId)
       THEN /\ Respond("DeleteTodo", tok, todoId, "none", 403, FALSE)
            /\ UNCHANGED <<todos, files, notifications, nextNotifId>>
       ELSE IF todoId \notin DOMAIN todos
       THEN /\ Respond("DeleteTodo", tok, todoId, "none", 404, FALSE)
            /\ UNCHANGED <<todos, files, notifications, nextNotifId>>
       ELSE IF ~canDeleteTodo(tok, todoId)
       THEN /\ Respond("DeleteTodo", tok, todoId, "none", 403, FALSE)
            /\ UNCHANGED <<todos, files, notifications, nextNotifId>>
       ELSE LET ns == DeleteTodoNotifications(tok, todos[todoId])
                made == CreateNotifications(CascadeTodos(notifications, {todoId}),
                                            nextNotifId, ns, failAt)
            IN  /\ todos' = Without(todos, {todoId})
                /\ files' = CascadeTodos(files, {todoId})
                /\ notifications' = made.table
                /\ nextNotifId' = made.nextId
                \* the failure of the notification is caught and logged
                /\ Respond("DeleteTodo", tok, todoId, "none", 200, Threw(ns, failAt))

\* ------------------------------------------------------------------------
\* DELETE /api/users/[id]
\* ------------------------------------------------------------------------
\* Mutant: todos.assigneeId does not cascade
TodosOfUser_CreatorOnly(u) == {t \in DOMAIN todos : todos[t].creatorId = u}

\* Todos removed by ON DELETE CASCADE of todos.creatorId and todos.assigneeId
TodosOfUser(u) ==
    {t \in DOMAIN todos : todos[t].creatorId = u \/ todos[t].assigneeId = u}

\* prisma.user.delete with the cascades of the schema
HardDeleteUser(u) ==
    /\ users' = Without(users, {u})
    /\ todos' = Without(todos, TodosOfUser(u))
    /\ files' = Without(files, {f \in DOMAIN files :
                    files[f].uploadedById = u \/ files[f].todoId \in TodosOfUser(u)})
    /\ notifications' = Without(notifications, {n \in DOMAIN notifications :
                    notifications[n].userId = u \/ notifications[n].todoId \in TodosOfUser(u)})

\* Mutant: the row is deactivated and its email is left as it is
SoftDeleteUser_KeepEmail(u) ==
    /\ users' = [users EXCEPT ![u].isActive = FALSE]
    /\ UNCHANGED <<todos, files, notifications>>

\* prisma.user.update({ isActive: false, email: `deleted_${Date.now()}_${email}` })
SoftDeleteUser(u) ==
    /\ users' = [users EXCEPT ![u].isActive = FALSE,
                              ![u].email = <<"deleted_", ToString(requests)>> \o @]
    /\ UNCHANGED <<todos, files, notifications>>

DeleteUser(tok, target, hard) ==
    /\ UNCHANGED <<disk, nextTodoId, nextNotifId, nextFileId>>
    /\ LET op == IF hard THEN "HardDeleteUser" ELSE "SoftDeleteUser"
       IN IF ~authenticateUser(tok)
          THEN /\ Respond(op, tok, NoTodo, target, 401, FALSE)
               /\ UNCHANGED <<users, todos, files, notifications>>
          ELSE IF ~requireAdmin(tok)
          THEN /\ Respond(op, tok, NoTodo, target, 403, FALSE)
               /\ UNCHANGED <<users, todos, files, notifications>>
          ELSE IF tok = target
          THEN /\ Respond(op, tok, NoTodo, target, 400, FALSE)
               /\ UNCHANGED <<users, todos, files, notifications>>
          ELSE IF target \notin DOMAIN users
          THEN /\ Respond(op, tok, NoTodo, target, 404, FALSE)
               /\ UNCHANGED <<users, todos, files, notifications>>
          ELSE /\ IF hard THEN HardDeleteUser(target) ELSE SoftDeleteUser(target)
               /\ Respond(op, tok, NoTodo, target, 200, FALSE)

\* ------------------------------------------------------------------------
\* POST /api/files
\* ------------------------------------------------------------------------
MAX_FILE_SIZE == 10485760
MaxFilesPerUpload == 5

allowedTypes ==
    {"image/jpeg", "image/png", "image/gif", "image/webp", "application/pdf",
     "application/msword",
     "application/vnd.openxmlformats-officedocument.wordprocessingml.document",
     "application/vnd.ms-excel",
     "application/vnd.openxmlformats-officedocument.spreadsheetml.sheet",
     "text/plain", "text/csv", "application/zip", "application/x-zip-compressed"}

\* Mutant: the size cap is not checked
FileAccepted_AnySize(file) ==
    /\ file.size # 0
    /\ file.type \in allowedTypes

\* A file of the form passes the three checks of the loop
FileAccepted(file) ==
    /\ file.size # 0
    /\ file.size <= MAX_FILE_SIZE
    /\ file.type \in allowedTypes

\* errors: one message for each file of the form that fails a check
RECURSIVE UploadErrors(_)
UploadErrors(batch) ==
    IF batch = <<>> THEN <<>>
    ELSE (IF Head(batch).size = 0 THEN <<"Empty file">>
          ELSE IF Head(batch).size > MAX_FILE_SIZE THEN <<"File too large">>
          ELSE IF Head(batch).type \notin allowedTypes THEN <<"File type not allowed">>
          ELSE <<>>)
         \o UploadErrors(Tail(batch))

\* The loop over the files of the form: each accepted file is written to the
\* upload directory under a fresh name and then catalogued
RECURSIVE ProcessFiles(_, _, _, _, _, _)
ProcessFiles(batch, tok, todoId, table, dir, nextId) ==
    IF batch = <<>> THEN [table |-> table, dir |-> dir, nextId |-> nextId]
    ELSE IF FileAccepted(Head(batch))
    THEN ProcessFiles(Tail(batch), tok, todoId,
                      table @@ (nextId :> [fileName |-> nextId, uploadedById |-> tok,
                                           todoId |-> todoId]),
                      dir \cup {nextId}, nextId + 1)
    ELSE ProcessFiles(Tail(batch), tok, todoId, table, dir, nextId)

UploadFiles(tok, todoId, batch) ==
    /\ UNCHANGED <<users, todos, notifications, nextTodoId, nextNotifId>>
    /\ IF ~authenticateUser(tok)
       THEN /\ Respond("UploadFiles", tok, todoId, "none", 401, FALSE)
            /\ UNCHANGED <<files, disk, nextFileId>>
       ELSE IF Len(batch) = 0
       THEN /\ ReplyFile("UploadFiles", tok, todoId, NoFileId, 400, <<"No files provided">>)
            /\ UNCHANGED <<files, disk, nextFileId, profileDir, inflight>>
       ELSE IF Len(batch) > MaxFilesPerUpload
       THEN /\ ReplyFile("UploadFiles", tok, todoId, NoFileId, 400,
                         <<"Maximum 5 files allowed per upload">>)
            /\ UNCHANGED <<files, disk, nextFileId, profileDir, inflight>>
       ELSE IF todoId # NoTodo /\ todoId \notin DOMAIN todos
       THEN /\ Respond("UploadFiles", tok, todoId, "none", 404, FALSE)
            /\ UNCHANGED <<files, disk, nextFileId>>
       ELSE IF todoId # NoTodo /\ todos[todoId].creatorId # tok /\ todos[todoId].assigneeId # tok
       THEN /\ Respond("UploadFiles", tok, todoId, "none", 403, FALSE)
            /\ UNCHANGED <<files, disk, nextFileId>>
       ELSE LET done == ProcessFiles(batch, tok, todoId, files, disk, nextFileId)
            IN  /\ files' = done.table
                /\ disk' = done.dir
                /\ nextFileId' = done.nextId
                \* the errors are the message of the 400 response and the
                \* warnings of the 201 response
                /\ ReplyFile("UploadFiles", tok, todoId, NoFileId,
                             IF done.nextId = nextFileId THEN 400 ELSE 201,
                             UploadErrors(batch))
                /\ UNCHANGED <<profileDir, inflight>>

\* Upload forms
GoodFile == [size |-> 1024, type |-> "image/png"]
EmptyFile == [size |-> 0, type |-> "image/png"]
LargeFile == [size |-> MAX_FILE_SIZE + 1, type |-> "application/pdf"]
ScriptFile == [size |-> 1024, type |-> "application/x-sh"]

UploadBatches == {<<>>, <<GoodFile>>, <<EmptyFile>>, <<GoodFile, ScriptFile>>}

CreateBodies ==
    [title : {<<>>, <<"a">>, <<"a", " ">>}, description : {Undefined},
     assigneeId : AssigneeInputs, dueDate : {NoValue, "past"}, priority : {NoValue}]

\* The body that supplies no field
EmptyBody ==
    [title |-> Undefined, description |-> Undefined, status |-> NoValue,
     priority |-> NoValue, dueDate |-> NoValue, position |-> NoPosition]

\* Update bodies: no field, one field, or a status together with a title
UpdateBodies ==
    {EmptyBody}
    \cup {[EmptyBody EXCEPT !.title = v] : v \in TitleInputs}
    \cup {[EmptyBody EXCEPT !.description = v] : v \in DescriptionInputs}
    \cup {[EmptyBody EXCEPT !.status = v] : v \in StatusInputs}
    \cup {[EmptyBody EXCEPT !.priority = v] : v \in PriorityInputs}
    \cup {[EmptyBody EXCEPT !.dueDate = v] : v \in DueDateInputs}
    \cup {[EmptyBody EXCEPT !.position = v] : v \in PositionInputs}
    \cup {[EmptyBody EXCEPT !.status = v, !.title = <<"b">>] : v \in StatusInputs}

Next ==
    /\ requests < MaxRequests
    /\ \/ \E tok \in UserIds, t \in RequestTodoIds : GetTodo(tok, t)
       \/ \E tok \in UserIds, body \in CreateBodies, failAt \in 0..1 :
             CreateTodo(tok, body, failAt)
       \/ \E tok \in UserIds, t \in RequestTodoIds, body \in UpdateBodies, failAt \in 0..2 :
             UpdateTodo(tok, t, body, failAt)
       \/ \E tok \in UserIds, t \in RequestTodoIds, status \in StatusInputs :
             UpdateTodoStatus(tok, t, status)
       \/ \E tok \in UserIds, t \in RequestTodoIds, failAt \in 0..1 :
             DeleteTodo(tok, t, failAt)
       \/ \E tok \in UserIds, target \in UserIds, hard \in BOOLEAN :
             DeleteUser(tok, target, hard)
       \/ \E tok \in UserIds, t \in {NoTodo} \cup RequestTodoIds, batch \in UploadBatches :
             UploadFiles(tok, t, batch)

Spec == Init /\ [][Next]_vars

\* ------------------------------------------------------------------------
\* Properties
\* ------------------------------------------------------------------------
TodoOps == {"GetTodo", "UpdateTodo", "UpdateTodoStatus", "DeleteTodo"}

\* The requester of the step is the creator or the assignee of the todo the
\* request names, as stored before the request
IsParty(actor, todoId) ==
    /\ todoId \in DOMAIN todos
    /\ todos[todoId].creatorId = actor \/ todos[todoId].assigneeId = actor

\* Rows the step added to the notifications table
AddedNotifications == DOMAIN notifications' \ DOMAIN notifications

\* C1: in every reachable state every stored todo has completedAt non-null
\* if and only if its status is COMPLETED.
C1_CompletedAtIffCompleted ==
    \A t \in DOMAIN todos :
        (todos[t].completedAt # NullValue) <=> (todos[t].status = "COMPLETED")

\* C2: canAccessTodo is true exactly for the creator and the assignee of an
\* existing todo; get, generic update and status update succeed or change the
\* todo only for them, and any other requester is denied with the todos
\* unchanged.
C2_OnlyCreatorOrAssignee ==
    [][lastReq'.op \in {"GetTodo", "UpdateTodo", "UpdateTodoStatus"} =>
        LET a == lastReq'.actor
            t == lastReq'.todoId
        IN  /\ canAccessTodo(a, t) <=> IsParty(a, t)
            /\ (lastReq'.code = 200 \/ todos' # todos) => IsParty(a, t)
            /\ (t \in DOMAIN todos /\ ~IsParty(a, t)) =>
                  /\ lastReq'.code = IF authenticateUser(a) THEN 403 ELSE 401
                  /\ todos' = todos]_vars

\* C2 witness: a user who is neither creator nor assignee of an existing todo
\* asked to update it and was refused.
C2_Witness ==
    /\ lastReq.op = "UpdateTodo"
    /\ lastReq.code = 403
    /\ lastReq.todoId \in DOMAIN todos
    /\ todos[lastReq.todoId].creatorId # lastReq.actor
    /\ todos[lastReq.todoId].assigneeId # lastReq.actor

\* C3: an authenticated get, update, status update or delete of a todo id
\* that does not exist is answered with 404.
C3_MissingTodoIsNotFound ==
    [][(/\ lastReq'.op \in TodoOps
        /\ lastReq'.todoId \notin DOMAIN todos
        /\ authenticateUser(lastReq'.actor)) => lastReq'.code = 404]_vars

\* C4: the delete operation removes a todo only for its creator; a delete
\* request of anybody else is answered 403 and leaves todos, files and
\* notifications unchanged.
C4_DeleteOnlyByCreator ==
    [][(lastReq'.op = "DeleteTodo" /\ lastReq'.todoId \in DOMAIN todos) =>
        LET a == lastReq'.actor
            t == lastReq'.todoId
        IN  /\ t \notin DOMAIN todos' => todos[t].creatorId = a
            /\ (authenticateUser(a) /\ todos[t].creatorId # a) =>
                  /\ lastReq'.code = 403
                  /\ UNCHANGED <<todos, files, notifications>>]_vars

\* C4 witness: the assignee, who is not the creator, asked to delete a todo
\* that has a notification linked to it, and was refused.
C4_Witness ==
    /\ lastReq.op = "DeleteTodo"
    /\ lastReq.code = 403
    /\ lastReq.todoId \in DOMAIN todos
    /\ todos[lastReq.todoId].assigneeId = lastReq.actor
    /\ todos[lastReq.todoId].creatorId # lastReq.actor
    /\ \E n \in DOMAIN notifications : notifications[n].todoId = lastReq.todoId

NothingLeftOf(u) ==
    /\ \A t \in DOMAIN todos : todos[t].creatorId # u /\ todos[t].assigneeId # u
    /\ \A f \in DOMAIN files : files[f].uploadedById # u
    /\ \A n \in DOMAIN notifications : notifications[n].userId # u

\* C6 as stated: after any successful delete-user request for U, no todo,
\* file or notification of U remains.
C6_DeleteUserCascades ==
    (lastReq.op \in {"HardDeleteUser", "SoftDeleteUser"} /\ lastReq.code = 200)
        => NothingLeftOf(lastReq.userId)

\* C6 amended: after a successful hard delete (hard=true) of U, no todo,
\* file or notification of U remains.
C6_HardDeleteUserCascades ==
    (lastReq.op = "HardDeleteUser" /\ lastReq.code = 200)
        => /\ lastReq.userId \notin DOMAIN users
           /\ NothingLeftOf(lastReq.userId)

\* C6 witness: a hard delete succeeded after a todo had been created, and it
\* took the only todo with it.
C6_Witness ==
    /\ lastReq.op = "HardDeleteUser"
    /\ lastReq.code = 200
    /\ nextTodoId > 1
    /\ DOMAIN todos = {}

\* C7: a successful creation with assignee # creator adds exactly one
\* notification, of type todo_assigned, for the assignee and linked to the
\* new todo; a successful creation with assignee = creator adds none.
C7_CreateNotifiesAssigneeOnce ==
    [][(lastReq'.op = "CreateTodo" /\ lastReq'.code = 201) =>
        LET t == lastReq'.todoId
        IN  /\ t \notin DOMAIN todos /\ t \in DOMAIN todos'
            /\ todos'[t].creatorId = lastReq'.actor
            /\ \A n \in DOMAIN notifications : n \in DOMAIN notifications'
                                               /\ notifications'[n] = notifications[n]
            /\ IF todos'[t].assigneeId # todos'[t].creatorId
               THEN /\ Cardinality(AddedNotifications) = 1
                    /\ \A n \in AddedNotifications :
                          /\ notifications'[n].type = "todo_assigned"
                          /\ notifications'[n].userId = todos'[t].assigneeId
                          /\ notifications'[n].userId # todos'[t].creatorId
                          /\ notifications'[n].todoId = t
               ELSE AddedNotifications = {}]_vars

\* C7 witness: a creation for another user succeeded and its notification is
\* in the store.
C7_Witness ==
    /\ lastReq.op = "CreateTodo"
    /\ lastReq.code = 201
    /\ todos[lastReq.todoId].assigneeId # lastReq.actor
    /\ \E n \in DOMAIN notifications :
          /\ notifications[n].todoId = lastReq.todoId
          /\ notifications[n].type = "todo_assigned"

\* No field the body supplies differs from the stored row
NoSuppliedFieldDiffers(body, cur) ==
    /\ body.title = Undefined \/ body.title = cur.title
    /\ body.description = Undefined \/ body.description = cur.description
    /\ body.status = NoValue \/ body.status = cur.status
    /\ body.priority = NoValue \/ body.priority = cur.priority
    /\ body.dueDate = NoValue \/ ParsedDueDate(body) = cur.dueDate
    /\ body.position = NoPosition \/ body.position = cur.position

\* C8: a generic update by a creator or assignee in which no supplied field
\* differs from the stored todo is answered 400, writes nothing and emits no
\* notification.
C8_EmptyDiffRejected ==
    [][\A tok \in UserIds, t \in DOMAIN todos, body \in UpdateBodies, failAt \in 0..2 :
        (/\ authenticateUser(tok)
         /\ canAccessTodo(tok, t)
         /\ NoSuppliedFieldDiffers(body, todos[t])
         /\ UpdateTodo(tok, t, body, failAt)) =>
            /\ lastReq'.code = 400
            /\ todos' = todos
            /\ notifications' = notifications]_vars

\* C9: a request during which the creation of a notification threw is
\* answered with success.
C9_NotificationFailureSwallowed ==
    lastReq.threw => lastReq.code \in {200, 201}

\* C10: a generic update or status update adds a todo_completed notification
\* (one, for the assignee) exactly when its requester is not the assignee and
\* it changes the status from a value other than COMPLETED to COMPLETED.
C10_CompletedNotification ==
    [][(/\ lastReq'.op \in {"UpdateTodo", "UpdateTodoStatus"}
        /\ lastReq'.code = 200) =>
        LET t == lastReq'.todoId
            completed == {n \in AddedNotifications :
                             notifications'[n].type = "todo_completed"}
        IN  IF /\ lastReq'.actor # todos[t].assigneeId
               /\ todos[t].status # "COMPLETED"
               /\ todos'[t].status = "COMPLETED"
            THEN /\ Cardinality(completed) = 1
                 /\ \A n \in completed : /\ notifications'[n].userId = todos[t].assigneeId
                                         /\ notifications'[n].todoId = t
            ELSE completed = {}]_vars

\* The tracked columns of a todo
TrackedFields == {"title", "description", "status", "priority", "dueDate"}

\* C11: a successful generic update or status update that changes a tracked
\* column of the todo adds exactly one todo_updated notification, for the
\* assignee, when the requester is not the assignee; a successful update by
\* the assignee adds none.
C11_UpdateNotifiesAssigneeOnce ==
    [][(/\ lastReq'.op \in {"UpdateTodo", "UpdateTodoStatus"}
        /\ lastReq'.code = 200) =>
        LET t == lastReq'.todoId
            updated == {n \in AddedNotifications :
                           notifications'[n].type = "todo_updated"}
        IN  /\ (/\ lastReq'.actor # todos[t].assigneeId
                /\ \E f \in TrackedFields : todos'[t][f] # todos[t][f]) =>
                    /\ Cardinality(updated) = 1
                    /\ \A n \in updated : /\ notifications'[n].userId = todos[t].assigneeId
                                          /\ notifications'[n].todoId = t
            /\ lastReq'.actor = todos[t].assigneeId => updated = {}]_vars

\* The todo_updated notifications without todo link that the step added for
\* user u
DeletionNotices(u) ==
    {n \in AddedNotifications : /\ notifications'[n].type = "todo_updated"
                                /\ notifications'[n].todoId = NoTodo
                                /\ notifications'[n].userId = u}

\* C12 as stated: a deletion by the creator of a todo assigned to somebody
\* else adds exactly one todo_updated notification without todo link for the
\* assignee, which is in the store after the cascade; a deletion of a todo
\* the creator is assigned to adds none.
C12_DeleteNotifiesAssigneeOnce ==
    [][(lastReq'.op = "DeleteTodo" /\ lastReq'.code = 200) =>
        LET t == lastReq'.todoId
        IN  /\ t \notin DOMAIN todos'
            /\ IF todos[t].assigneeId # lastReq'.actor
               THEN /\ Cardinality(AddedNotifications) = 1
                    /\ AddedNotifications = DeletionNotices(todos[t].assigneeId)
               ELSE AddedNotifications = {}]_vars

\* C12 amended: the same, unless the creation of the notification throws; the
\* failure is caught, the deletion still succeeds and no notification is
\* added.
C12_DeleteNotifiesUnlessThrown ==
    [][(lastReq'.op = "DeleteTodo" /\ lastReq'.code = 200) =>
        LET t == lastReq'.todoId
        IN  /\ t \notin DOMAIN todos'
            /\ \A n \in DOMAIN notifications' : notifications'[n].todoId # t
            /\ IF todos[t].assigneeId # lastReq'.actor /\ ~lastReq'.threw
               THEN /\ Cardinality(AddedNotifications) = 1
                    /\ AddedNotifications = DeletionNotices(todos[t].assigneeId)
               ELSE AddedNotifications = {}]_vars

\* C12 witness: the creator deleted a todo assigned to another user; the
\* notification linked to the todo went with it and the deletion notice of
\* the assignee is in the store.
C12_Witness ==
    /\ lastReq.op = "DeleteTodo"
    /\ lastReq.code = 200
    /\ ~lastReq.threw
    /\ 1 \notin DOMAIN notifications
    /\ \E n \in DOMAIN notifications :
          /\ notifications[n].title = "Todo Deleted"
          /\ notifications[n].todoId = NoTodo
          /\ notifications[n].userId # lastReq.actor

\* ------------------------------------------------------------------------
\* PUT /api/users/[id]
\* ------------------------------------------------------------------------
\* canAccessUser: admins, and every user for themselves
\* Mutant: every authenticated user may access every user
canAccessUser_Anyone(tok, target) == TRUE

canAccessUser(tok, target) == users[tok].role = "ADMIN" \/ tok = target

\* updateData of the user update; the isActive field of the body is "true",
\* "false" or missing
UserUpdateData(body) ==
    (IF body.name # Undefined THEN [name |-> Trim(body.name)] ELSE <<>>)
    @@
    (IF body.profilePic # Undefined THEN [profilePic |-> body.profilePic] ELSE <<>>)
    @@
    (IF body.isActive # NoValue THEN [isActive |-> (body.isActive = "true")] ELSE <<>>)

UpdateUser(tok, target, body) ==
    /\ UNCHANGED <<todos, files, notifications, disk, nextTodoId, nextNotifId, nextFileId>>
    /\ IF ~authenticateUser(tok)
       THEN /\ Respond("UpdateUser", tok, NoTodo, target, 401, FALSE)
            /\ UNCHANGED users
       ELSE IF ~canAccessUser(tok, target)
       THEN /\ Respond("UpdateUser", tok, NoTodo, target, 403, FALSE)
            /\ UNCHANGED users
       ELSE IF body.isActive # NoValue /\ ~requireAdmin(tok)
       THEN /\ Respond("UpdateUser", tok, NoTodo, target, 403, FALSE)
            /\ UNCHANGED users
       ELSE IF \/ body.isActive = "false" /\ tok = target
               \/ body.name # Undefined /\ Len(Trim(body.name)) < 2
       THEN /\ Respond("UpdateUser", tok, NoTodo, target, 400, FALSE)
            /\ UNCHANGED users
       ELSE IF target \notin DOMAIN users
       \* 'Record to update not found'
       THEN /\ Respond("UpdateUser", tok, NoTodo, target, 404, FALSE)
            /\ UNCHANGED users
       ELSE /\ users' = [users EXCEPT ![target] = ApplyUpdate(@, UserUpdateData(body))]
            /\ Respond("UpdateUser", tok, NoTodo, target, 200, FALSE)

\* The body that supplies no field
EmptyUserBody == [name |-> Undefined, profilePic |-> Undefined, isActive |-> NoValue]

UpdateUserBodies ==
    {[EmptyUserBody EXCEPT !.name = v] : v \in {<<"a">>, <<"a", "b">>}}
    \cup {[EmptyUserBody EXCEPT !.profilePic = <<"a">>]}
    \cup {[EmptyUserBody EXCEPT !.isActive = v] : v \in {"true", "false"}}

\* ------------------------------------------------------------------------
\* POST /api/users/profile-picture
\* ------------------------------------------------------------------------
profileAllowedTypes == {"image/jpeg", "image/png", "image/gif", "image/webp"}

\* formData.get('profilePicture') of a form without that field
NoFile == [size |-> 0, type |-> NoValue]

\* tok is "none" for a request without bearer token; any other token is
\* unexpired and verifyToken returns its payload, whose userId is tok.  The
\* file is written under the name `${userId}-${Date.now()}` before the user
\* row is updated; the update throws when the row is gone.
UploadProfilePicture(tok, file) ==
    /\ UNCHANGED <<todos, files, notifications, disk, nextTodoId, nextNotifId, nextFileId,
                   inflight>>
    /\ IF tok = "none"
       THEN /\ Reply("UploadProfilePicture", tok, NoTodo, "none", 401, FALSE)
            /\ UNCHANGED <<users, profileDir>>
       ELSE IF file = NoFile \/ file.type \notin profileAllowedTypes
       THEN /\ Reply("UploadProfilePicture", tok, NoTodo, "none", 400, FALSE)
            /\ UNCHANGED <<users, profileDir>>
       ELSE /\ profileDir' = profileDir \cup {<<tok, ToString(requests)>>}
            /\ IF tok \notin DOMAIN users
               THEN /\ Reply("UploadProfilePicture", tok, NoTodo, "none", 500, FALSE)
                    /\ UNCHANGED users
               ELSE /\ users' = [users EXCEPT ![tok].profilePic =
                                    <<"/uploads/profiles/", tok, ToString(requests)>>]
                    /\ Reply("UploadProfilePicture", tok, NoTodo, "none", 200, FALSE)

\* ------------------------------------------------------------------------
\* Accounts: todo creation, user update, user deletion and the endpoints a
\* token of the user is presented to afterwards
\* ------------------------------------------------------------------------
AccountTodoBodies ==
    [title : {<<"a">>}, description : {Undefined}, assigneeId : UserIds,
     dueDate : {NoValue}, priority : {NoValue}]

NextAccounts ==
    /\ requests < MaxRequests
    /\ \/ \E tok \in UserIds, body \in AccountTodoBodies : CreateTodo(tok, body, 0)
       \/ \E tok \in UserIds, t \in RequestTodoIds : GetTodo(tok, t)
       \/ \E tok \in UserIds, target \in UserIds, body \in UpdateUserBodies :
             UpdateUser(tok, target, body)
       \/ \E tok \in UserIds, target \in UserIds, hard \in BOOLEAN :
             DeleteUser(tok, target, hard)
       \/ \E tok \in UserIds \cup {"none"}, file \in {NoFile, GoodFile, ScriptFile} :
             UploadProfilePicture(tok, file)

SpecAccounts == Init /\ [][NextAccounts]_vars

\* C13: a request that presents the token of a user who has been deactivated
\* or removed is answered 401 and changes nothing in the store or on disk.
C13_RevokedTokenRefused ==
    [][(/\ lastReq'.actor \in UserIds
        /\ (lastReq'.actor \notin DOMAIN users \/ ~users[lastReq'.actor].isActive)) =>
            /\ lastReq'.code = 401
            /\ UNCHANGED <<store, profileDir>>]_vars

\* C14 as stated: the creator and the assignee of every stored todo are
\* existing users whose active flag is true.
C14_TodoUsersActive ==
    \A t \in DOMAIN todos :
        /\ todos[t].creatorId \in DOMAIN users /\ users[todos[t].creatorId].isActive
        /\ todos[t].assigneeId \in DOMAIN users /\ users[todos[t].assigneeId].isActive

\* C14 amended: the creator and the assignee of every stored todo are
\* existing users, and both are active at the time the todo is created.
C14_TodoUsersExist ==
    [][/\ \A t \in DOMAIN todos' : /\ todos'[t].creatorId \in DOMAIN users'
                                    /\ todos'[t].assigneeId \in DOMAIN users'
       /\ \A t \in DOMAIN todos' \ DOMAIN todos :
              /\ authenticateUser(todos'[t].creatorId)
              /\ authenticateUser(todos'[t].assigneeId)]_vars

\* C14 witness: a user was deactivated after a todo had been assigned to
\* them, and the todo is still stored.
C14_Witness ==
    /\ lastReq.op \in {"UpdateUser", "SoftDeleteUser"}
    /\ lastReq.code = 200
    /\ \E t \in DOMAIN todos : /\ todos[t].assigneeId = lastReq.userId
                                /\ ~users[lastReq.userId].isActive

\* ------------------------------------------------------------------------
\* POST /api/auth/register, POST /api/users, POST /api/auth/login
\* ------------------------------------------------------------------------
\* String.prototype.toLowerCase, symbol by symbol
UpperToLower == ("A" :> "a") @@ ("B" :> "b") @@ ("JOHN" :> "john")

\* Mutant: the email is stored and looked up as typed
toLowerCase_AsTyped(s) == s

toLowerCase(s) ==
    [i \in 1..Len(s) |-> IF s[i] \in DOMAIN UpperToLower THEN UpperToLower[s[i]] ELSE s[i]]

\* /^[^\s@]+@[^\s@]+\.[^\s@]+$/
validateEmail(email) ==
    \E i \in 2..Len(email) :
        /\ email[i] = "@"
        /\ \A j \in (1..Len(email)) \ {i} : email[j] \notin {"@", " "}
        /\ \E k \in (i + 2)..(Len(email) - 1) : email[k] = "."

MinPasswordLength == 6

\* At least six characters, a lowercase letter, an uppercase letter, a digit
validatePassword(password) ==
    /\ Len(password) >= MinPasswordLength
    /\ \E i \in 1..Len(password) : password[i] \in {"a", "b", "d"}
    /\ \E i \in 1..Len(password) : password[i] \in {"A", "B"}
    /\ \E i \in 1..Len(password) : password[i] \in {"1"}

\* The checks of name, email and password shared by both creation handlers
SignupValid(body) ==
    /\ body.name \notin {Undefined, <<>>}
    /\ body.email \notin {Undefined, <<>>}
    /\ body.password \notin {Undefined, <<>>}
    /\ Len(Trim(body.name)) >= 2
    /\ validateEmail(body.email)
    /\ validatePassword(body.password)

\* prisma.user.findUnique({ where: { email } })
UsersByEmail(email) == {u \in DOMAIN users : users[u].email = email}

\* The requests accepted so far: answered or in flight
Started == requests + Cardinality(DOMAIN inflight)

\* A request passed its existence check and waits for its insert
Admit(op, tok, body, role, code) ==
    /\ inflight' = inflight @@
          (FreeSlot :>
              [op |-> op, actor |-> tok, name |-> Trim(body.name),
               email |-> toLowerCase(body.email),
               password |-> hashPassword(body.password), role |-> role, code |-> code])
    /\ UNCHANGED <<lastReq, requests, profileDir>>

\* POST /api/auth/register up to the existence check
Register(body) ==
    /\ UNCHANGED <<store, nextTodoId, nextNotifId, nextFileId>>
    /\ IF ~SignupValid(body)
       THEN Respond("Register", "none", NoTodo, "none", 400, FALSE)
       ELSE IF UsersByEmail(toLowerCase(body.email)) # {}
       THEN Respond("Register", "none", NoTodo, "none", 409, FALSE)
       ELSE Admit("Register", "none", body, "USER", 201)

\* POST /api/users up to the existence check; role is NoValue when the body
\* has none
CreateUser(tok, body, role) ==
    /\ UNCHANGED <<store, nextTodoId, nextNotifId, nextFileId>>
    /\ IF ~authenticateUser(tok)
       THEN Respond("CreateUser", tok, NoTodo, "none", 401, FALSE)
       ELSE IF ~requireAdmin(tok)
       THEN Respond("CreateUser", tok, NoTodo, "none", 403, FALSE)
       ELSE IF ~SignupValid(body) \/ (role # NoValue /\ role \notin {"USER", "ADMIN"})
       THEN Respond("CreateUser", tok, NoTodo, "none", 400, FALSE)
       ELSE IF UsersByEmail(toLowerCase(body.email)) # {}
       THEN Respond("CreateUser", tok, NoTodo, "none", 409, FALSE)
       ELSE Admit("CreateUser", tok, body, IF role = NoValue THEN "USER" ELSE role, 200)

\* prisma.user.create of the request in flight p and its response; the
\* unique index users_email_key makes the insert throw when the email is
\* stored already.  The new id is the number of the response.
InsertUser(p) ==
    /\ p \in DOMAIN inflight
    /\ inflight[p].op \in {"Register", "CreateUser"}
    /\ UNCHANGED <<todos, files, notifications, disk, nextTodoId, nextNotifId, nextFileId,
                   profileDir>>
    /\ inflight' = Without(inflight, {p})
    /\ LET r == inflight[p]
           id == ToString(requests)
       IN  IF UsersByEmail(r.email) # {}
           THEN /\ Reply(r.op, r.actor, NoTodo, "none", 500, FALSE)
                /\ UNCHANGED users
           ELSE /\ users' = users @@ (id :> [role |-> r.role, isActive |-> TRUE,
                                             email |-> r.email, name |-> r.name,
                                             password |-> r.password,
                                             profilePic |-> Null, lastLogin |-> NullValue])
                /\ Reply(r.op, r.actor, NoTodo, id, r.code, FALSE)

\* POST /api/auth/login
Login(body) ==
    /\ UNCHANGED <<todos, files, notifications, disk, nextTodoId, nextNotifId, nextFileId>>
    /\ IF \/ body.email \in {Undefined, <<>>}
          \/ body.password \in {Undefined, <<>>}
          \/ ~validateEmail(body.email)
       THEN /\ Respond("Login", "none", NoTodo, "none", 400, FALSE)
            /\ UNCHANGED users
       ELSE IF UsersByEmail(toLowerCase(body.email)) = {}
       THEN /\ Respond("Login", "none", NoTodo, "none", 401, FALSE)
            /\ UNCHANGED users
       ELSE LET u == CHOOSE x \in UsersByEmail(toLowerCase(body.email)) : TRUE
            IN  IF ~users[u].isActive
                THEN /\ Respond("Login", "none", NoTodo, u, 403, FALSE)
                     /\ UNCHANGED users
                ELSE IF ~comparePassword(body.password, users[u].password)
                THEN /\ Respond("Login", "none", NoTodo, u, 401, FALSE)
                     /\ UNCHANGED users
                ELSE /\ users' = [users EXCEPT ![u].lastLogin = "now"]
                     /\ Respond("Login", "none", NoTodo, u, 200, FALSE)

\* Request bodies of the creation handlers and of login
GoodName == <<"a", "b">>
GoodPassword == <<"A", "a", "1", "a", "a", "a">>
WeakPassword == <<"a", "a", "1", "a", "a", "a">>
NewLower == <<"a", "@", "b", ".", "d">>
NewUpper == <<"A", "@", "B", ".", "d">>
JohnUpper == <<"JOHN", "@", "b", ".", "d">>
NoDot == <<"a", "@", "b">>

SignupBodies ==
    [name : {GoodName}, email : {NewLower, NewUpper, JohnUpper, NoDot},
     password : {GoodPassword}]
    \cup {[name |-> <<"a", " ">>, email |-> NewLower, password |-> GoodPassword],
          [name |-> GoodName, email |-> NewLower, password |-> WeakPassword]}

LoginBodies ==
    [email : {JohnUpper, NewUpper, NoDot}, password : {SeedPassword, GoodPassword}]

\* Registration, admin creation, login and soft or hard deletion; the two
\* creation handlers can be interleaved between their existence check and
\* their insert
NextSignup ==
    \/ /\ Started < MaxRequests
       /\ \/ \E body \in SignupBodies : Register(body)
          \/ \E tok \in UserIds, body \in SignupBodies, role \in {NoValue, "ADMIN", "OWNER"} :
                CreateUser(tok, body, role)
          \/ \E body \in LoginBodies : Login(body)
          \/ \E tok \in UserIds, target \in UserIds, hard \in BOOLEAN :
                DeleteUser(tok, target, hard)
    \/ \E p \in DOMAIN inflight : InsertUser(p)

SpecSignup == Init /\ [][NextSignup]_vars

\* No two users have the same email and every stored email is lowercase
EmailsUniqueLowercase(table) ==
    /\ \A u, v \in DOMAIN table : table[u].email = table[v].email => u = v
    /\ \A u \in DOMAIN table : \A i \in 1..Len(table[u].email) :
          table[u].email[i] \notin DOMAIN UpperToLower

\* C15: in every state no two users have the same email and every stored
\* email is lowercase, also when creations are interleaved between check and
\* insert; a valid registration or admin creation whose lowercased email is
\* stored already is answered 409 and adds nothing; a created user is stored
\* under the lowercased email; a successful login is that of the user whose
\* stored email is the lowercased email of the request.
C15_EmailUniqueLowercase ==
    [][/\ EmailsUniqueLowercase(users)
       /\ EmailsUniqueLowercase(users')
       /\ \A body \in SignupBodies, tok \in UserIds, role \in {NoValue, "ADMIN"} :
             (/\ SignupValid(body)
              /\ UsersByEmail(toLowerCase(body.email)) # {}
              /\ Register(body) \/ (authenticateUser(tok) /\ requireAdmin(tok)
                                     /\ CreateUser(tok, body, role))) =>
                 lastReq'.code = 409 /\ users' = users /\ inflight' = inflight
       /\ \A p \in DOMAIN inflight : \A u \in DOMAIN users' \ DOMAIN users :
             InsertUser(p) => \E body \in SignupBodies :
                                 /\ inflight[p].name = Trim(body.name)
                                 /\ users'[u].email = toLowerCase(body.email)
       /\ \A body \in LoginBodies :
             (Login(body) /\ lastReq'.code = 200) =>
                 users[lastReq'.userId].email = toLowerCase(body.email)]_vars

\* C15 witness: two creations with the same email (typed in different case)
\* both passed the existence check before either inserted; the first insert
\* stored the lowercased email and the second was refused by the unique
\* index.
C15_Witness ==
    /\ lastReq.op \in {"Register", "CreateUser"}
    /\ lastReq.code = 500
    /\ Cardinality(UsersByEmail(NewLower)) = 1
    /\ toLowerCase(NewUpper) = NewLower
    /\ UsersByEmail(NewUpper) = {}

\* Positions of the stored todos assigned to user a
PositionsOf(a) == {todos[x].position : x \in {y \in DOMAIN todos : todos[y].assigneeId = a}}

CreateTodoRefusal(tok, body) ==
    IF ~authenticateUser(tok) THEN 401
    ELSE IF \/ body.title \in {Undefined, <<>>}
            \/ Trim(body.title) = <<>>
            \/ Len(body.title) > TitleLimit
            \/ ~Truthy(body.assigneeId)
    THEN 400
    ELSE IF body.assigneeId \notin DOMAIN users THEN 404
    ELSE IF \/ ~users[body.assigneeId].isActive
            \/ Truthy(body.dueDate) /\ ParseDate(body.dueDate) = "NaN"
            \/ Truthy(body.dueDate) /\ ParseDate(body.dueDate) = "past"
    THEN 400
    ELSE 0

\* The handler up to prisma.todo.findFirst: the request keeps the position it
\* computed from the row it read
CreateTodoRead(tok, body) ==
    /\ UNCHANGED <<store, nextTodoId, nextNotifId, nextFileId>>
    /\ IF CreateTodoRefusal(tok, body) # 0
       THEN Respond("CreateTodo", tok, NoTodo, "none", CreateTodoRefusal(tok, body), FALSE)
       ELSE /\ inflight' = inflight @@
                  (FreeSlot :>
                      [op |-> "CreateTodo", actor |-> tok, body |-> body,
                       position |-> NextPosition(body.assigneeId)])
            /\ UNCHANGED <<lastReq, requests, profileDir>>

\* Mutant: the position is computed again when the row is inserted
InsertedPosition_ReadAgain(p) == NextPosition(inflight[p].body.assigneeId)

\* The position prisma.todo.create is given
InsertedPosition(p) == inflight[p].position

\* The rest of the handler: prisma.todo.create with the position read
\* before, the notification, the response.  The foreign keys make the insert
\* throw when the creator or the assignee is gone.
CreateTodoInsert(p, failAt) ==
    /\ p \in DOMAIN inflight
    /\ inflight[p].op = "CreateTodo"
    /\ UNCHANGED <<users, files, disk, nextFileId, profileDir>>
    /\ inflight' = Without(inflight, {p})
    /\ LET tok == inflight[p].actor
           body == inflight[p].body
           ns == CreateTodoNotifications(tok, body, nextTodoId)
           made == CreateNotifications(notifications, nextNotifId, ns, failAt)
       IN  IF tok \notin DOMAIN users \/ body.assigneeId \notin DOMAIN users
           THEN /\ Reply("CreateTodo", tok, NoTodo, "none", 500, FALSE)
                /\ UNCHANGED <<todos, notifications, nextTodoId, nextNotifId>>
           ELSE /\ todos' = todos @@ (nextTodoId :>
                                [NewTodo(tok, body) EXCEPT !.position = InsertedPosition(p)])
                /\ nextTodoId' = nextTodoId + 1
                /\ notifications' = made.table
                /\ nextNotifId' = made.nextId
                /\ Reply("CreateTodo", tok, nextTodoId, "none",
                         IF Threw(ns, failAt) THEN 500 ELSE 201, Threw(ns, failAt))

\* Bodies that set the position of a todo
PositionBodies == {[EmptyBody EXCEPT !.position = v] : v \in {1, 2}}

\* Creations that can be interleaved between read and insert, with the
\* updates and deletions of todos
NextCreateRace ==
    \/ /\ Started < MaxRequests
       /\ \/ \E tok \in UserIds, body \in CreateBodies : CreateTodoRead(tok, body)
          \/ \E tok \in UserIds, t \in RequestTodoIds, body \in PositionBodies :
                UpdateTodo(tok, t, body, 0)
          \/ \E tok \in UserIds, t \in RequestTodoIds : DeleteTodo(tok, t, 0)
    \/ \E p \in DOMAIN inflight, failAt \in 0..1 : CreateTodoInsert(p, failAt)

SpecCreateRace == Init /\ [][NextCreateRace]_vars

\* C17: a creation is inserted with the position it read, whatever has been
\* inserted since (so two creations for one assignee that both read before
\* either inserts are stored with the same position, and the insert is not
\* refused), and the position of a stored todo changes only through an
\* update of that todo.
C17_DuplicatePositionKept ==
    [][/\ \A p \in DOMAIN inflight' \ DOMAIN inflight :
             LET ps == PositionsOf(inflight'[p].body.assigneeId)
             IN  /\ ps = {} => inflight'[p].position = 1
                 /\ ps # {} => /\ (inflight'[p].position - 1) \in ps
                                /\ \A q \in ps : q < inflight'[p].position
       /\ \A p \in DOMAIN inflight \ DOMAIN inflight' :
             {inflight[p].actor, inflight[p].body.assigneeId} \subseteq DOMAIN users =>
             /\ lastReq'.code \in {201, 500}
             /\ lastReq'.todoId \in DOMAIN todos' \ DOMAIN todos
             /\ todos'[lastReq'.todoId].position = inflight[p].position
             /\ todos'[lastReq'.todoId].assigneeId = inflight[p].body.assigneeId
       /\ \A t \in DOMAIN todos \cap DOMAIN todos' :
             todos'[t].position # todos[t].position =>
                 lastReq'.op = "UpdateTodo" /\ lastReq'.todoId = t]_vars

\* C17 witness: two creations, and nothing else, were answered with success,
\* and the two todos are stored for the same assignee with the same position.
C17_Witness ==
    /\ requests = 2
    /\ lastReq.op = "CreateTodo"
    /\ lastReq.code = 201
    /\ DOMAIN todos = {1, 2}
    /\ todos[1].assigneeId = todos[2].assigneeId
    /\ todos[1].position = todos[2].position

\* ------------------------------------------------------------------------
\* GET /api/files/serve/[filename]
\* ------------------------------------------------------------------------
\* Mutant: the file is looked up by its name only
canServeFile_ByName(userId, f) == TRUE

\* The OR of the where clause: the user uploaded the file, or created or is
\* assigned to the todo it is linked to
canServeFile(userId, f) ==
    \/ files[f].uploadedById = userId
    \/ /\ files[f].todoId \in DOMAIN todos
       /\ \/ todos[files[f].todoId].creatorId = userId
          \/ todos[files[f].todoId].assigneeId = userId

NotFoundOrDenied == <<"File not found or access denied">>

ServeFile(tok, name) ==
    /\ UNCHANGED <<store, nextTodoId, nextNotifId, nextFileId, profileDir, inflight>>
    /\ IF ~authenticateUser(tok)
       THEN ReplyFile("ServeFile", tok, NoTodo, name, 401, <<"Unauthorized">>)
       ELSE IF {f \in DOMAIN files : files[f].fileName = name /\ canServeFile(tok, f)} = {}
       THEN ReplyFile("ServeFile", tok, NoTodo, name, 404, NotFoundOrDenied)
       ELSE IF name \notin disk
       THEN ReplyFile("ServeFile", tok, NoTodo, name, 404, <<"File not found on server">>)
       ELSE ReplyFile("ServeFile", tok, NoTodo, name, 200, <<>>)

\* ------------------------------------------------------------------------
\* DELETE /api/files/[id]
\* ------------------------------------------------------------------------
\* canDelete
canDeleteFile(userId, f) ==
    \/ files[f].uploadedById = userId
    \/ /\ files[f].todoId \in DOMAIN todos
       /\ \/ todos[files[f].todoId].creatorId = userId
          \/ todos[files[f].todoId].assigneeId = userId

\* Mutant: the object is unlinked first and the row is left for later
DeleteFile_ObjectFirst(tok, fileId) ==
    /\ UNCHANGED <<users, todos, notifications, nextTodoId, nextNotifId, nextFileId,
                   profileDir>>
    /\ IF ~authenticateUser(tok)
       THEN /\ ReplyFile("DeleteFile", tok, NoTodo, fileId, 401, <<"Unauthorized">>)
            /\ UNCHANGED <<files, disk, inflight>>
       ELSE IF fileId \notin DOMAIN files
       THEN /\ ReplyFile("DeleteFile", tok, NoTodo, fileId, 404, <<"File not found">>)
            /\ UNCHANGED <<files, disk, inflight>>
       ELSE IF ~canDeleteFile(tok, fileId)
       THEN /\ ReplyFile("DeleteFile", tok, NoTodo, fileId, 403, <<"Access denied">>)
            /\ UNCHANGED <<files, disk, inflight>>
       ELSE /\ disk' = disk \ {files[fileId].fileName}
            /\ inflight' = inflight @@
                  (FreeSlot :>
                      [op |-> "DeleteFile", actor |-> tok, fileId |-> fileId,
                       fileName |-> files[fileId].fileName])
            /\ UNCHANGED <<files, lastReq, requests>>

\* The handler up to and including prisma.file.delete
DeleteFile(tok, fileId) ==
    /\ UNCHANGED <<users, todos, notifications, disk, nextTodoId, nextNotifId, nextFileId,
                   profileDir>>
    /\ IF ~authenticateUser(tok)
       THEN /\ ReplyFile("DeleteFile", tok, NoTodo, fileId, 401, <<"Unauthorized">>)
            /\ UNCHANGED <<files, inflight>>
       ELSE IF fileId \notin DOMAIN files
       THEN /\ ReplyFile("DeleteFile", tok, NoTodo, fileId, 404, <<"File not found">>)
            /\ UNCHANGED <<files, inflight>>
       ELSE IF ~canDeleteFile(tok, fileId)
       THEN /\ ReplyFile("DeleteFile", tok, NoTodo, fileId, 403, <<"Access denied">>)
            /\ UNCHANGED <<files, inflight>>
       ELSE /\ files' = Without(files, {fileId})
            /\ inflight' = inflight @@
                  (FreeSlot :>
                      [op |-> "DeleteFile", actor |-> tok, fileId |-> fileId,
                       fileName |-> files[fileId].fileName])
            /\ UNCHANGED <<lastReq, requests>>

\* Mutant: the failure of unlink is answered as an internal error
UnlinkResponse_Propagated(failed) == IF failed THEN 500 ELSE 200

\* The failure of unlink is caught and logged
UnlinkResponse(failed) == 200

\* The rest of the handler: existsSync and unlink, which may throw, and the
\* response
RemoveFromDisk(p, failed) ==
    /\ p \in DOMAIN inflight
    /\ inflight[p].op = "DeleteFile"
    /\ UNCHANGED <<users, todos, files, notifications, nextTodoId, nextNotifId, nextFileId,
                   profileDir>>
    /\ inflight' = Without(inflight, {p})
    /\ disk' = IF failed THEN disk ELSE disk \ {inflight[p].fileName}
    /\ ReplyFile("DeleteFile", inflight[p].actor, NoTodo, inflight[p].fileId,
                 UnlinkResponse(failed), <<>>)

\* ------------------------------------------------------------------------
\* Files: upload, serve and delete, with todos to link the files to
\* ------------------------------------------------------------------------
FileBatches ==
    UploadBatches
    \cup {<<LargeFile>>, <<EmptyFile, ScriptFile>>, <<LargeFile, GoodFile, ScriptFile>>,
          [i \in 1..MaxFilesPerUpload |-> GoodFile],
          [i \in 1..(MaxFilesPerUpload + 1) |-> GoodFile]}

RequestFileIds == 1..nextFileId

NextFiles ==
    \/ /\ Started < MaxRequests
       /\ \/ \E tok \in UserIds, body \in AccountTodoBodies : CreateTodo(tok, body, 0)
          \/ \E tok \in UserIds, t \in {NoTodo} \cup RequestTodoIds, batch \in FileBatches :
                UploadFiles(tok, t, batch)
          \/ \E tok \in UserIds, name \in RequestFileIds : ServeFile(tok, name)
          \/ \E tok \in UserIds, f \in RequestFileIds : DeleteFile(tok, f)
    \/ \E p \in DOMAIN inflight, failed \in BOOLEAN : RemoveFromDisk(p, failed)

SpecFiles == Init /\ [][NextFiles]_vars

\* User u uploaded a stored file named name, or created or is assigned to
\* the todo it is linked to
MayRead(u, name) ==
    \E f \in DOMAIN files :
        /\ files[f].fileName = name
        /\ \/ files[f].uploadedById = u
           \/ \E t \in DOMAIN todos : /\ files[f].todoId = t
                                       /\ u \in {todos[t].creatorId, todos[t].assigneeId}

C19_RowFirstDiskBestEffort ==
    [][/\ \A name \in disk \ disk' : \A f \in DOMAIN files : files[f].fileName # name
       /\ DOMAIN files' # DOMAIN files => disk \subseteq disk'
       /\ \A p \in DOMAIN inflight \ DOMAIN inflight' :
             /\ lastReq'.op = "DeleteFile"
             /\ lastReq'.fileId = inflight[p].fileId
             /\ lastReq'.code = 200
             /\ inflight[p].fileId \notin DOMAIN files
             /\ files' = files]_vars

\* C19 witness: a deletion was answered 200, the row is gone and the object
\* is still in the upload directory because unlink failed.
C19_Witness ==
    /\ lastReq.op = "DeleteFile"
    /\ lastReq.code = 200
    /\ lastReq.fileId \notin DOMAIN files
    /\ lastReq.fileId \in disk

\* The files of a form that are non-empty, within the size cap and of an
\* allowed type
ValidFiles(batch) ==
    {i \in 1..Len(batch) : /\ batch[i].size > 0
                           /\ batch[i].size <= 10 * 1024 * 1024
                           /\ batch[i].type \in allowedTypes}

ReplyNotification(op, tok, notifId, code) ==
    /\ lastReq' = [op |-> op, actor |-> tok, todoId |-> NoTodo, userId |-> "none",
                   code |-> code, threw |-> FALSE, fileId |-> NoFileId, detail |-> <<>>,
                   notifId |-> notifId]
    /\ requests' = requests + 1
    /\ UNCHANGED <<profileDir, inflight>>

\* Mutant: the addressee is not compared with the requester
ownsNotification_Anyone(userId, n) == TRUE

\* notification.userId === user.id
ownsNotification(userId, n) == notifications[n].userId = userId

\* The isRead field of the body is "true", "false", NullValue or missing;
\* the column is not nullable, so a null makes the update throw
UpdateNotification(tok, n, isRead) ==
    /\ UNCHANGED <<users, todos, files, disk, nextTodoId, nextNotifId, nextFileId>>
    /\ IF ~authenticateUser(tok)
       THEN /\ ReplyNotification("UpdateNotification", tok, n, 401)
            /\ UNCHANGED notifications
       ELSE IF n \notin DOMAIN notifications
       THEN /\ ReplyNotification("UpdateNotification", tok, n, 404)
            /\ UNCHANGED notifications
       ELSE IF ~ownsNotification(tok, n)
       THEN /\ ReplyNotification("UpdateNotification", tok, n, 403)
            /\ UNCHANGED notifications
       ELSE IF isRead = NullValue
       THEN /\ ReplyNotification("UpdateNotification", tok, n, 500)
            /\ UNCHANGED notifications
       ELSE /\ notifications' =
                  [notifications EXCEPT
                      ![n].isRead = IF isRead # NoValue THEN isRead = "true" ELSE TRUE,
                      ![n].readAt = IF isRead # "false" THEN "now" ELSE NullValue]
            /\ ReplyNotification("UpdateNotification", tok, n, 200)

\* Mutant: the row is deleted before the addressee is compared
DeleteNotification_DeleteFirst(tok, n) ==
    /\ UNCHANGED <<users, todos, files, disk, nextTodoId, nextNotifId, nextFileId>>
    /\ IF ~authenticateUser(tok)
       THEN /\ ReplyNotification("DeleteNotification", tok, n, 401)
            /\ UNCHANGED notifications
       ELSE IF n \notin DOMAIN notifications
       THEN /\ ReplyNotification("DeleteNotification", tok, n, 404)
            /\ UNCHANGED notifications
       ELSE /\ notifications' = Without(notifications, {n})
            /\ ReplyNotification("DeleteNotification", tok, n,
                                 IF ownsNotification(tok, n) THEN 200 ELSE 403)

DeleteNotification(tok, n) ==
    /\ UNCHANGED <<users, todos, files, disk, nextTodoId, nextNotifId, nextFileId>>
    /\ IF ~authenticateUser(tok)
       THEN /\ ReplyNotification("DeleteNotification", tok, n, 401)
            /\ UNCHANGED notifications
       ELSE IF n \notin DOMAIN notifications
       THEN /\ ReplyNotification("DeleteNotification", tok, n, 404)
            /\ UNCHANGED notifications
       ELSE IF ~ownsNotification(tok, n)
       THEN /\ ReplyNotification("DeleteNotification", tok, n, 403)
            /\ UNCHANGED notifications
       ELSE /\ notifications' = Without(notifications, {n})
            /\ ReplyNotification("DeleteNotification", tok, n, 200)

\* POST /api/notifications: the row is made of the fields of the body; the
\* foreign keys make the insert throw for a user or a todo that is not stored
PostNotification(tok, body) ==
    /\ UNCHANGED <<users, todos, files, disk, nextTodoId, nextFileId>>
    /\ IF ~authenticateUser(tok)
       THEN /\ ReplyNotification("PostNotification", tok, NoNotification, 401)
            /\ UNCHANGED <<notifications, nextNotifId>>
       ELSE IF \/ ~Truthy(body.userId) \/ ~Truthy(body.title)
               \/ ~Truthy(body.message) \/ ~Truthy(body.type)
       THEN /\ ReplyNotification("PostNotification", tok, NoNotification, 400)
            /\ UNCHANGED <<notifications, nextNotifId>>
       ELSE IF \/ body.userId \notin DOMAIN users
               \/ body.todoId # NoTodo /\ body.todoId \notin DOMAIN todos
       THEN /\ ReplyNotification("PostNotification", tok, NoNotification, 500)
            /\ UNCHANGED <<notifications, nextNotifId>>
       ELSE /\ notifications' = notifications @@
                  (nextNotifId :> Notification(body.title, body.type, body.userId, body.todoId))
            /\ nextNotifId' = nextNotifId + 1
            /\ ReplyNotification("PostNotification", tok, nextNotifId, 200)

\* Ids a request can name: every id handed out so far and one that is not
RequestNotifIds == 1..nextNotifId

IsReadInputs == {NoValue, NullValue, "true", "false"}

CustomNotification ==
    [userId |-> "jane", title |-> "Custom", message |-> "m", type |-> "custom",
     todoId |-> NoTodo]

PostBodies ==
    {CustomNotification}
    \cup {[CustomNotification EXCEPT !.userId = v] : v \in {NoValue, "nobody"}}
    \cup {[CustomNotification EXCEPT !.title = v] : v \in {NoValue, ""}}
    \cup {[CustomNotification EXCEPT !.message = NoValue],
          [CustomNotification EXCEPT !.type = "todo_assigned"]}
    \cup {[CustomNotification EXCEPT !.todoId = 1]}

\* Todo creation and deletion with the notification endpoints
NextNotifications ==
    /\ requests < MaxRequests
    /\ \/ \E tok \in UserIds, body \in AccountTodoBodies : CreateTodo(tok, body, 0)
       \/ \E tok \in UserIds, t \in RequestTodoIds : DeleteTodo(tok, t, 0)
       \/ \E tok \in UserIds, n \in RequestNotifIds, isRead \in IsReadInputs :
             UpdateNotification(tok, n, isRead)
       \/ \E tok \in UserIds, n \in RequestNotifIds : DeleteNotification(tok, n)
       \/ \E tok \in UserIds, body \in PostBodies : PostNotification(tok, body)

SpecNotifications == Init /\ [][NextNotifications]_vars

\* C21: the read flag and the read time of a stored notification change only
\* in an update request for it by its addressee, an explicit delete removes
\* only the notification it names and only for its addressee, and the
\* update or delete request of any other user is answered 403 with the
\* notifications unchanged.
C21_OnlyAddresseeChanges ==
    [][\A n \in DOMAIN notifications :
        /\ (/\ n \in DOMAIN notifications'
            /\ \/ notifications'[n].isRead # notifications[n].isRead
               \/ notifications'[n].readAt # notifications[n].readAt) =>
                /\ lastReq'.op = "UpdateNotification"
                /\ lastReq'.notifId = n
                /\ lastReq'.actor = notifications[n].userId
        /\ (lastReq'.op = "DeleteNotification" /\ n \notin DOMAIN notifications') =>
                /\ lastReq'.notifId = n
                /\ lastReq'.actor = notifications[n].userId
        /\ (/\ lastReq'.op \in {"UpdateNotification", "DeleteNotification"}
            /\ requests' = requests + 1
            /\ lastReq'.notifId = n
            /\ authenticateUser(lastReq'.actor)
            /\ lastReq'.actor # notifications[n].userId) =>
                /\ lastReq'.code = 403
                /\ notifications' = notifications]_vars

\* C21 witness: a user asked to mark a notification of somebody else as read
\* and was refused; the notification is still unread.
C21_Witness ==
    /\ lastReq.op = "UpdateNotification"
    /\ lastReq.code = 403
    /\ lastReq.notifId \in DOMAIN notifications
    /\ notifications[lastReq.notifId].userId # lastReq.actor
    /\ ~notifications[lastReq.notifId].isRead

\* C22: rows are added to the notifications table only by the creation, the
\* update and the deletion of a todo, with a type of the trigger matrix.
C22_OnlySystemNotifications ==
    [][AddedNotifications # {} =>
        /\ lastReq'.op \in {"CreateTodo", "UpdateTodo", "DeleteTodo"}
        /\ \A n \in AddedNotifications :
              notifications'[n].type \in {"todo_assigned", "todo_updated", "todo_completed"}]_vars

\* ------------------------------------------------------------------------
\* Unread count (GET /api/dashboard/stats) and the assignment scenario
\* ------------------------------------------------------------------------
\* Number of responses of the scenario specification
ScenarioRequests == 3

\* Mutant: the count does not look at the read flag
unreadCount_All(table, userId) ==
    Cardinality({n \in DOMAIN table : table[n].userId = userId})

\* prisma.notification.count({ where: { userId: user.id, isRead: false } })
\* over the rows of the table
unreadCount(table, userId) ==
    Cardinality({n \in DOMAIN table : table[n].userId = userId /\ ~table[n].isRead})

\* Bearer tokens: those of the seeded users and of the users created since
Tokens == UserIds \cup DOMAIN users

ScenarioUserBodies ==
    {[name |-> GoodName, email |-> NewLower, password |-> GoodPassword],
     [name |-> GoodName, email |-> JohnUpper, password |-> GoodPassword]}

\* Admin creation of users, todo creation and the marking of notifications
NextScenario ==
    \/ /\ Started < ScenarioRequests
       /\ \/ \E tok \in Tokens, body \in ScenarioUserBodies, role \in {NoValue, "ADMIN"} :
                CreateUser(tok, body, role)
          \/ \E tok \in Tokens, body \in AccountTodoBodies, failAt \in {0, 1} :
                CreateTodo(tok, body, failAt)
          \/ \E tok \in Tokens, n \in RequestNotifIds, isRead \in IsReadInputs :
                UpdateNotification(tok, n, isRead)
    \/ \E p \in DOMAIN inflight : InsertUser(p)

SpecScenario == Init /\ [][NextScenario]_vars

\* A user made by POST /api/users with role USER
AdminCreated(u) == u \in DOMAIN users /\ u \notin UserIds /\ users[u].role = "USER"

\* C23: when a user A created by the admin with role USER creates a todo
\* assigned to another user B who had no unread notification, and the
\* notification insert does not throw, the unread count of B is exactly 1
\* after the creation; when B then marks that notification read, the unread
\* count of B is exactly 0.
C23_AssignThenRead ==
    [][/\ (/\ lastReq'.op = "CreateTodo" /\ lastReq'.code = 201 /\ ~lastReq'.threw
            /\ requests' = requests + 1
            /\ AdminCreated(lastReq'.actor)
            /\ todos'[lastReq'.todoId].assigneeId # lastReq'.actor
            /\ unreadCount(notifications, todos'[lastReq'.todoId].assigneeId) = 0) =>
                /\ unreadCount(notifications', todos'[lastReq'.todoId].assigneeId) = 1
                /\ \A n \in AddedNotifications :
                      /\ notifications'[n].userId = todos'[lastReq'.todoId].assigneeId
                      /\ notifications'[n].todoId = lastReq'.todoId
       /\ (/\ lastReq'.op = "UpdateNotification" /\ lastReq'.code = 200
            /\ requests' = requests + 1
            /\ notifications'[lastReq'.notifId].isRead
            /\ ~notifications[lastReq'.notifId].isRead
            /\ unreadCount(notifications, lastReq'.actor) = 1) =>
                unreadCount(notifications', lastReq'.actor) = 0]_vars

\* C23 witness: the whole sequence happened: a user made by the admin created
\* a todo for another user, and that user has marked its notification read.
C23_Witness ==
    /\ lastReq.op = "UpdateNotification" /\ lastReq.code = 200
    /\ \E n \in DOMAIN notifications, t \in DOMAIN todos :
          /\ n = lastReq.notifId
          /\ notifications[n].isRead
          /\ notifications[n].todoId = t
          /\ notifications[n].userId = lastReq.actor
          /\ todos[t].assigneeId = lastReq.actor
          /\ AdminCreated(todos[t].creatorId)
          /\ unreadCount(notifications, lastReq.actor) = 0

\* ------------------------------------------------------------------------
\* GET /api/users/[id] and PUT /api/users/[id]/password
\* ------------------------------------------------------------------------
GetUser(tok, target) ==
    /\ UNCHANGED <<store, nextTodoId, nextNotifId, nextFileId>>
    /\ IF ~authenticateUser(tok)
       THEN Respond("GetUser", tok, NoTodo, target, 401, FALSE)
       ELSE IF ~canAccessUser(tok, target)
       THEN Respond("GetUser", tok, NoTodo, target, 403, FALSE)
       ELSE IF target \notin DOMAIN users
       THEN Respond("GetUser", tok, NoTodo, target, 404, FALSE)
       ELSE Respond("GetUser", tok, NoTodo, target, 200, FALSE)

\* newPassword.length < 8
MinNewPasswordLength == 8

\* A wrong current password is answered 401
ChangePassword(tok, target, body) ==
    /\ UNCHANGED <<todos, files, notifications, disk, nextTodoId, nextNotifId, nextFileId>>
    /\ IF ~authenticateUser(tok)
       THEN /\ Respond("ChangePassword", tok, NoTodo, target, 401, FALSE)
            /\ UNCHANGED users
       ELSE IF ~canAccessUser(tok, target)
       THEN /\ Respond("ChangePassword", tok, NoTodo, target, 403, FALSE)
            /\ UNCHANGED users
       ELSE IF \/ body.currentPassword \in {Undefined, <<>>}
               \/ body.newPassword \in {Undefined, <<>>}
               \/ Len(body.newPassword) < MinNewPasswordLength
       THEN /\ Respond("ChangePassword", tok, NoTodo, target, 400, FALSE)
            /\ UNCHANGED users
       ELSE IF target \notin DOMAIN users
       THEN /\ Respond("ChangePassword", tok, NoTodo, target, 404, FALSE)
            /\ UNCHANGED users
       ELSE IF ~comparePassword(body.currentPassword, users[target].password)
       THEN /\ Respond("ChangePassword", tok, NoTodo, target, 401, FALSE)
            /\ UNCHANGED users
       ELSE /\ users' = [users EXCEPT ![target].password = hashPassword(body.newPassword)]
            /\ Respond("ChangePassword", tok, NoTodo, target, 200, FALSE)

LongPassword == <<"a", "a", "a", "a", "a", "a", "a", "a">>

PasswordBodies ==
    [currentPassword : {SeedPassword, GoodPassword}, newPassword : {LongPassword, GoodPassword}]
    \cup {[currentPassword |-> Undefined, newPassword |-> LongPassword],
          [currentPassword |-> SeedPassword, newPassword |-> Undefined]}

\* Ids a user request can name: the seeded users and one that is not stored
RequestUserIds == UserIds \cup {"nobody"}

\* ------------------------------------------------------------------------
\* The todo, user and notification endpoints together
\* ------------------------------------------------------------------------
NextEndpoints ==
    \/ /\ Started < MaxRequests
       /\ \/ \E tok \in UserIds, t \in RequestTodoIds : GetTodo(tok, t)
          \/ \E tok \in UserIds, body \in CreateBodies, failAt \in 0..1 :
                CreateTodo(tok, body, failAt)
          \/ \E tok \in UserIds, t \in RequestTodoIds, body \in UpdateBodies, failAt \in 0..2 :
                UpdateTodo(tok, t, body, failAt)
          \/ \E tok \in UserIds, t \in RequestTodoIds, status \in StatusInputs :
                UpdateTodoStatus(tok, t, status)
          \/ \E tok \in UserIds, t \in RequestTodoIds, failAt \in 0..1 :
                DeleteTodo(tok, t, failAt)
          \/ \E body \in SignupBodies : Register(body)
          \/ \E tok \in UserIds, body \in SignupBodies, role \in {NoValue, "ADMIN", "OWNER"} :
                CreateUser(tok, body, role)
          \/ \E tok \in UserIds, target \in RequestUserIds : GetUser(tok, target)
          \/ \E tok \in UserIds, target \in RequestUserIds, body \in UpdateUserBodies :
                UpdateUser(tok, target, body)
          \/ \E tok \in UserIds, target \in RequestUserIds, body \in PasswordBodies :
                ChangePassword(tok, target, body)
          \/ \E tok \in UserIds, target \in RequestUserIds, hard \in BOOLEAN :
                DeleteUser(tok, target, hard)
          \/ \E tok \in UserIds, n \in RequestNotifIds, isRead \in IsReadInputs :
                UpdateNotification(tok, n, isRead)
          \/ \E tok \in UserIds, n \in RequestNotifIds : DeleteNotification(tok, n)
          \/ \E tok \in UserIds, body \in PostBodies : PostNotification(tok, body)
    \/ \E p \in DOMAIN inflight : InsertUser(p)

SpecEndpoints == Init /\ [][NextEndpoints]_vars

\* Validation, Forbidden, NotFound and Conflict
RefusalCodes == {400, 403, 404, 409}

\* C24: a step in which a request on a todo, user or notification endpoint is
\* answered 400, 403, 404 or 409 leaves users, todos, files, notifications
\* and the disk exactly as they were.
C24_RefusalChangesNothing ==
    [][(requests' = requests + 1 /\ lastReq'.code \in RefusalCodes) =>
          /\ store' = store
          /\ profileDir' = profileDir]_vars

\* C24 witness: a request that would have written was refused while a todo
\* and a notification are stored.
C24_Witness ==
    /\ lastReq.code \in RefusalCodes
    /\ lastReq.op \in {"UpdateUser", "DeleteUser", "UpdateTodo", "DeleteTodo",
                       "UpdateNotification", "DeleteNotification"}
    /\ todos # <<>>
    /\ notifications # <<>>

\* ------------------------------------------------------------------------
\* Soft deletion followed by login and registration
\* ------------------------------------------------------------------------
JohnLower == <<"john", "@", "b", ".", "d">>

\* The emails a soft deletion can have written for john
DeletedEmails == {<<"deleted_", ToString(k)>> \o JohnLower : k \in 0..ScenarioRequests}

SoftDeleteLoginBodies ==
    [email : {JohnUpper} \cup DeletedEmails, password : {SeedPassword}]

ReRegisterBodies ==
    [name : {GoodName}, email : {JohnUpper, NewLower}, password : {GoodPassword}]

NextSoftDelete ==
    \/ /\ Started < ScenarioRequests
       /\ \/ \E tok \in UserIds, body \in AccountTodoBodies : CreateTodo(tok, body, 0)
          \/ \E tok \in UserIds, t \in RequestTodoIds : GetTodo(tok, t)
          \/ \E tok \in UserIds, target \in UserIds, hard \in BOOLEAN :
                DeleteUser(tok, target, hard)
          \/ \E body \in SoftDeleteLoginBodies : Login(body)
          \/ \E body \in ReRegisterBodies : Register(body)
    \/ \E p \in DOMAIN inflight : InsertUser(p)

SpecSoftDelete == Init /\ [][NextSoftDelete]_vars

\* C25: a soft delete answered 200 keeps the row of the user and all todos,
\* files and notifications, sets isActive to false and stores an email that
\* differs from the one before, which no row holds any more; a request with
\* the token of an inactive user is answered 401 and a login never succeeds
\* for an inactive user; a valid registration whose lowercased email no row
\* holds passes the existence check, and its insert stores the new user
\* under that email with 201.
C25_SoftDelete ==
    [][/\ (lastReq'.op = "SoftDeleteUser" /\ lastReq'.code = 200
            /\ requests' = requests + 1) =>
              LET u == lastReq'.userId
              IN  /\ DOMAIN users' = DOMAIN users
                  /\ ~users'[u].isActive
                  /\ users'[u].email # users[u].email
                  /\ \A v \in DOMAIN users' : users'[v].email # users[u].email
                  /\ \A v \in DOMAIN users \ {u} : users'[v] = users[v]
                  /\ users'[u] = [users[u] EXCEPT !.isActive = FALSE,
                                                  !.email = users'[u].email]
                  /\ todos' = todos /\ files' = files /\ notifications' = notifications
       /\ (/\ lastReq'.op \in {"CreateTodo", "GetTodo", "SoftDeleteUser", "HardDeleteUser"}
           /\ requests' = requests + 1
           /\ lastReq'.actor \in DOMAIN users
           /\ ~users[lastReq'.actor].isActive) => lastReq'.code = 401
       /\ (lastReq'.op = "Login" /\ requests' = requests + 1 /\ lastReq'.code = 200) =>
              users[lastReq'.userId].isActive
       /\ \A body \in SoftDeleteLoginBodies :
              (Login(body) /\ \E u \in UsersByEmail(body.email) : ~users[u].isActive) =>
                  lastReq'.code = 403
       /\ \A body \in ReRegisterBodies :
              (Register(body) /\ UsersByEmail(toLowerCase(body.email)) = {}) =>
                  /\ requests' = requests
                  /\ DOMAIN inflight' # DOMAIN inflight
       /\ \A p \in DOMAIN inflight :
              (InsertUser(p) /\ inflight[p].op = "Register"
                 /\ UsersByEmail(inflight[p].email) = {}) =>
                  /\ lastReq'.code = 201
                  /\ lastReq'.userId \in DOMAIN users' \ DOMAIN users
                  /\ users'[lastReq'.userId].email = inflight[p].email]_vars

\* C25 witness: john, the assignee of a stored todo, was soft-deleted, and a
\* registration with the email john had was answered 201: the new user holds
\* that email, john's row and todo are still stored.
C25_Witness ==
    /\ lastReq.op = "Register" /\ lastReq.code = 201
    /\ "john" \in DOMAIN users
    /\ ~users["john"].isActive
    /\ users["john"].email \in DeletedEmails
    /\ users[lastReq.userId].email = JohnLower
    /\ \E t \in DOMAIN todos : todos[t].assigneeId = "john"

\* ------------------------------------------------------------------------
\* The user endpoints: get, update, password change, deletion
\* ------------------------------------------------------------------------
NextUsers ==
    /\ requests < MaxRequests
    /\ \/ \E tok \in UserIds, target \in RequestUserIds : GetUser(tok, target)
       \/ \E tok \in UserIds, target \in RequestUserIds, body \in UpdateUserBodies :
             UpdateUser(tok, target, body)
       \/ \E tok \in UserIds, target \in RequestUserIds, body \in PasswordBodies :
             ChangePassword(tok, target, body)
       \/ \E tok \in UserIds, target \in RequestUserIds, hard \in BOOLEAN :
             DeleteUser(tok, target, hard)

SpecUsers == Init /\ [][NextUsers]_vars

\* The requester is stored, active, and is the target or an admin
SelfOrAdmin(actor, target) ==
    /\ actor \in DOMAIN users
    /\ users[actor].isActive
    /\ actor = target \/ users[actor].role = "ADMIN"

\* The requester is stored, active, an admin and not the target
OtherAdmin(actor, target) ==
    /\ actor \in DOMAIN users
    /\ users[actor].isActive
    /\ users[actor].role = "ADMIN"
    /\ actor # target

\* C26: get, update and password change answer 200 or change a user row only
\* for a requester who is the target or an admin, and change no row but the
\* target's; the isActive flag of a row changes, and a soft or hard delete
\* is carried out, only for an admin who is not the target; every other such
\* request is answered 401, 403 or 400 with the store unchanged.
C26_SelfOrAdmin ==
    [][LET actor == lastReq'.actor
           target == lastReq'.userId
       IN  /\ (lastReq'.op \in {"GetUser", "UpdateUser", "ChangePassword"}
                 /\ (lastReq'.code = 200 \/ users' # users)) =>
                  /\ SelfOrAdmin(actor, target)
                  /\ \A v \in DOMAIN users \ {target} :
                        v \in DOMAIN users' /\ users'[v] = users[v]
           /\ (lastReq'.op \in {"GetUser", "UpdateUser", "ChangePassword"}
                 /\ ~SelfOrAdmin(actor, target)) =>
                  /\ lastReq'.code \in {401, 403}
                  /\ store' = store
           /\ (\E v \in DOMAIN users :
                  v \notin DOMAIN users' \/ users'[v].isActive # users[v].isActive) =>
                  /\ OtherAdmin(actor, target)
                  /\ \A v \in DOMAIN users \ {target} :
                        v \in DOMAIN users' /\ users'[v].isActive = users[v].isActive
           /\ (lastReq'.op \in {"SoftDeleteUser", "HardDeleteUser"}
                 /\ (lastReq'.code = 200 \/ store' # store)) =>
                  OtherAdmin(actor, target)
           /\ (lastReq'.op \in {"SoftDeleteUser", "HardDeleteUser"}
                 /\ ~OtherAdmin(actor, target)) =>
                  /\ lastReq'.code \in {401, 403, 400}
                  /\ store' = store]_vars

\* C26 witness: john asked to change the password of jane with jane's
\* current password and was refused 403; jane's password is the seeded one.
C26_Witness ==
    /\ lastReq.op = "ChangePassword" /\ lastReq.code = 403
    /\ lastReq.actor = "john" /\ lastReq.userId = "jane"
    /\ users["jane"].password = hashPassword(SeedPassword)
    /\ users["john"].isActive

\* ------------------------------------------------------------------------
\* GET /api/todos
\* ------------------------------------------------------------------------
\* { contains: search, mode: 'insensitive' }; a null column matches nothing
ContainsInsensitive(text, search) ==
    /\ text # Null
    /\ \E i \in 1..(Len(text) - Len(search) + 1) :
          toLowerCase(SubSeq(text, i, i + Len(search) - 1)) = toLowerCase(search)

\* The where object after all assignments: the query parameters assigneeId
\* and creatorId overwrite the keys the filter has set, and the OR of the
\* default filter stays beside them
WhereMatches(userId, q, todo) ==
    /\ IF Truthy(q.assigneeId) THEN todo.assigneeId = q.assigneeId
       ELSE IF q.filter = "assigned_to_me" THEN todo.assigneeId = userId
       ELSE IF q.filter = "created_by_me" THEN todo.assigneeId # userId
       ELSE TRUE
    /\ IF Truthy(q.creatorId) THEN todo.creatorId = q.creatorId
       ELSE IF q.filter = "created_by_me" THEN todo.creatorId = userId
       ELSE TRUE
    /\ q.filter \notin {"assigned_to_me", "created_by_me"} =>
          (todo.creatorId = userId \/ todo.assigneeId = userId)
    /\ Truthy(q.status) => todo.status = q.status
    /\ Truthy(q.priority) => todo.priority = q.priority
    /\ q.search # <<>> =>
          (ContainsInsensitive(todo.title, q.search)
             \/ ContainsInsensitive(todo.description, q.search))

\* The ids in a set as a sequence in ascending order
RECURSIVE Ascending(_)
Ascending(ids) ==
    IF ids = {} THEN <<>>
    ELSE LET m == CHOOSE x \in ids : \A y \in ids : x <= y
         IN  <<m>> \o Ascending(ids \ {m})

\* prisma.todo.findMany({ where }) of a first page that holds every match;
\* the response record carries the ids of the todos returned
ListTodos(tok, q) ==
    /\ UNCHANGED <<store, nextTodoId, nextNotifId, nextFileId, profileDir, inflight>>
    /\ requests' = requests + 1
    /\ lastReq' = [op |-> "ListTodos", actor |-> tok, todoId |-> NoTodo, userId |-> "none",
                   code |-> IF authenticateUser(tok) THEN 200 ELSE 401, threw |-> FALSE,
                   fileId |-> NoFileId,
                   detail |-> IF authenticateUser(tok)
                              THEN Ascending({t \in DOMAIN todos :
                                                WhereMatches(tok, q, todos[t])})
                              ELSE <<>>,
                   notifId |-> NoNotification]

ListQueries ==
    [filter : {NoValue, "assigned_to_me", "created_by_me", "all"},
     assigneeId : {NoValue} \cup UserIds,
     creatorId : {NoValue} \cup UserIds,
     status : {NoValue, "PENDING"},
     priority : {NoValue, "HIGH"},
     search : {<<>>, <<"A">>, <<"b">>}]

NextList ==
    /\ requests < MaxRequests
    /\ \/ \E tok \in UserIds, body \in AccountTodoBodies : CreateTodo(tok, body, 0)
       \/ \E tok \in UserIds, q \in ListQueries : ListTodos(tok, q)

SpecList == Init /\ [][NextList]_vars

\* C27: every todo the list returns has the requester as creator or
\* assignee, whatever the query parameters are.
C27_ListOnlyOwnTodos ==
    lastReq.op = "ListTodos" =>
        \A i \in 1..Len(lastReq.detail) :
            \/ todos[lastReq.detail[i]].creatorId = lastReq.actor
            \/ todos[lastReq.detail[i]].assigneeId = lastReq.actor

\* ------------------------------------------------------------------------
\* PUT /api/todos/[id] as two store steps: findUnique, then update
\* ------------------------------------------------------------------------
\* The response of an update that ends before prisma.todo.update, 0 if none
UpdateTodoRefusal(tok, todoId, body) ==
    IF ~authenticateUser(tok) THEN 401
    ELSE IF ~canAccessTodo(tok, todoId) THEN 403
    ELSE IF \/ body.title # Undefined /\ (body.title = <<>> \/ Trim(body.title) = <<>>)
            \/ body.title # Undefined /\ Len(body.title) > TitleLimit
            \/ ParsedDueDate(body) = "NaN"
    THEN 400
    ELSE IF todoId \notin DOMAIN todos THEN 404
    ELSE IF DOMAIN UpdateData(todos[todoId], body) = {} THEN 400
    ELSE 0

\* The handler up to the building of updateData from the row that
\* prisma.todo.findUnique returned
UpdateTodoRead(tok, todoId, body) ==
    /\ UNCHANGED <<store, nextTodoId, nextNotifId, nextFileId>>
    /\ IF UpdateTodoRefusal(tok, todoId, body) # 0
       THEN Respond("UpdateTodo", tok, todoId, "none", UpdateTodoRefusal(tok, todoId, body),
                    FALSE)
       ELSE /\ inflight' = inflight @@
                  (FreeSlot :>
                      [op |-> "UpdateTodo", actor |-> tok, todoId |-> todoId, body |-> body,
                       currentTodo |-> todos[todoId],
                       updateData |-> UpdateData(todos[todoId], body)])
            /\ UNCHANGED <<lastReq, requests, profileDir>>

\* The rest of the handler: prisma.todo.update with the updateData built
\* before, the notifications, the response.  The update throws when the row
\* is gone, which is answered 404.
UpdateTodoWrite(p, failAt) ==
    /\ p \in DOMAIN inflight
    /\ inflight[p].op = "UpdateTodo"
    /\ UNCHANGED <<users, files, disk, nextTodoId, nextFileId, profileDir>>
    /\ inflight' = Without(inflight, {p})
    /\ LET r == inflight[p]
           ns == UpdateTodoNotifications(r.actor, r.currentTodo, r.body, r.todoId)
           made == CreateNotifications(notifications, nextNotifId, ns, failAt)
       IN  IF r.todoId \notin DOMAIN todos
           \* 'Record to update not found'
           THEN /\ Reply("UpdateTodo", r.actor, r.todoId, "none", 404, FALSE)
                /\ UNCHANGED <<todos, notifications, nextNotifId>>
           ELSE /\ todos' = [todos EXCEPT ![r.todoId] = ApplyUpdate(@, r.updateData)]
                /\ notifications' = made.table
                /\ nextNotifId' = made.nextId
                /\ Reply("UpdateTodo", r.actor, r.todoId, "none",
                         IF Threw(ns, failAt) THEN 500 ELSE 200, Threw(ns, failAt))

\* Update bodies that set the status or the title
RaceBodies ==
    {[EmptyBody EXCEPT !.status = v] : v \in StatusEndpointValues}
    \cup {[EmptyBody EXCEPT !.title = <<"b">>]}

\* Creation of todos and generic updates that can be interleaved between
\* their read and their write
NextUpdateRace ==
    \/ /\ Started < ScenarioRequests
       /\ \/ \E tok \in UserIds, body \in AccountTodoBodies : CreateTodo(tok, body, 0)
          \/ \E tok \in UserIds, t \in RequestTodoIds, body \in RaceBodies :
                UpdateTodoRead(tok, t, body)
    \/ \E p \in DOMAIN inflight, failAt \in 0..1 : UpdateTodoWrite(p, failAt)

SpecUpdateRace == Init /\ [][NextUpdateRace]_vars

\* C28: when no generic update is between its read and its write, every
\* stored todo has completedAt set if and only if its status is COMPLETED,
\* whatever the interleaving of the updates before was.
C28_CompletedAtKeptInRace ==
    inflight = <<>> =>
        \A t \in DOMAIN todos :
            (todos[t].completedAt # NullValue) <=> (todos[t].status = "COMPLETED")

\* ------------------------------------------------------------------------
\* PUT and DELETE /api/users/[id] as two store steps: the reads of
\* authenticateUser and findUnique, then the write
\* ------------------------------------------------------------------------
\* The response of a user update that ends before prisma.user.update, 0 if none
UpdateUserRefusal(tok, target, body) ==
    IF ~authenticateUser(tok) THEN 401
    ELSE IF ~canAccessUser(tok, target) THEN 403
    ELSE IF body.isActive # NoValue /\ ~requireAdmin(tok) THEN 403
    ELSE IF \/ body.isActive = "false" /\ tok = target
            \/ body.name # Undefined /\ Len(Trim(body.name)) < 2
    THEN 400
    ELSE 0

\* The handler up to the building of updateData; the requester is the row
\* authenticateUser read
UpdateUserAuth(tok, target, body) ==
    /\ UNCHANGED <<store, nextTodoId, nextNotifId, nextFileId>>
    /\ IF UpdateUserRefusal(tok, target, body) # 0
       THEN Respond("UpdateUser", tok, NoTodo, target, UpdateUserRefusal(tok, target, body),
                    FALSE)
       ELSE /\ inflight' = inflight @@
                  (FreeSlot :> [op |-> "UpdateUser", actor |-> tok, target |-> target,
                                updateData |-> UserUpdateData(body)])
            /\ UNCHANGED <<lastReq, requests, profileDir>>

\* prisma.user.update with the updateData built before, and the response
UpdateUserWrite(p) ==
    /\ p \in DOMAIN inflight
    /\ inflight[p].op = "UpdateUser"
    /\ UNCHANGED <<todos, files, notifications, disk, nextTodoId, nextNotifId, nextFileId,
                   profileDir>>
    /\ inflight' = Without(inflight, {p})
    /\ LET r == inflight[p]
       IN  IF r.target \notin DOMAIN users
           \* 'Record to update not found'
           THEN /\ Reply("UpdateUser", r.actor, NoTodo, r.target, 404, FALSE)
                /\ UNCHANGED users
           ELSE /\ users' = [users EXCEPT ![r.target] = ApplyUpdate(@, r.updateData)]
                /\ Reply("UpdateUser", r.actor, NoTodo, r.target, 200, FALSE)

\* The response of a deletion that ends before its write, 0 if none
DeleteUserRefusal(tok, target) ==
    IF ~authenticateUser(tok) THEN 401
    ELSE IF ~requireAdmin(tok) THEN 403
    ELSE IF tok = target THEN 400
    ELSE IF target \notin DOMAIN users THEN 404
    ELSE 0

\* The handler up to prisma.user.findUnique of the target
DeleteUserRead(tok, target, hard) ==
    /\ UNCHANGED <<store, nextTodoId, nextNotifId, nextFileId>>
    /\ LET op == IF hard THEN "HardDeleteUser" ELSE "SoftDeleteUser"
       IN  IF DeleteUserRefusal(tok, target) # 0
           THEN Respond(op, tok, NoTodo, target, DeleteUserRefusal(tok, target), FALSE)
           ELSE /\ inflight' = inflight @@
                      (FreeSlot :> [op |-> op, actor |-> tok, target |-> target,
                                    email |-> users[target].email])
                /\ UNCHANGED <<lastReq, requests, profileDir>>

\* prisma.user.delete, or prisma.user.update with the email read before; both
\* throw when the row is gone
DeleteUserWrite(p) ==
    /\ p \in DOMAIN inflight
    /\ inflight[p].op \in {"HardDeleteUser", "SoftDeleteUser"}
    /\ UNCHANGED <<disk, nextTodoId, nextNotifId, nextFileId, profileDir>>
    /\ inflight' = Without(inflight, {p})
    /\ LET r == inflight[p]
       IN  IF r.target \notin DOMAIN users
           THEN /\ Reply(r.op, r.actor, NoTodo, r.target, 500, FALSE)
                /\ UNCHANGED <<users, todos, files, notifications>>
           ELSE /\ IF r.op = "HardDeleteUser"
                   THEN HardDeleteUser(r.target)
                   ELSE /\ users' = [users EXCEPT
                                        ![r.target].isActive = FALSE,
                                        ![r.target].email =
                                            <<"deleted_", ToString(requests)>> \o r.email]
                        /\ UNCHANGED <<todos, files, notifications>>
                /\ Reply(r.op, r.actor, NoTodo, r.target, 200, FALSE)

\* Bodies that set the active flag
ActiveBodies == {[EmptyUserBody EXCEPT !.isActive = v] : v \in {"true", "false"}}

SecondAdminBody == [name |-> GoodName, email |-> NewLower, password |-> GoodPassword]

\* Admin creation of users, and user updates and deletions that can be
\* interleaved between their reads and their write
NextAdminRace ==
    \/ /\ Started < ScenarioRequests
       /\ \/ \E tok \in Tokens, role \in {NoValue, "ADMIN"} :
                CreateUser(tok, SecondAdminBody, role)
          \/ \E tok \in Tokens, target \in Tokens, body \in ActiveBodies :
                UpdateUserAuth(tok, target, body)
          \/ \E tok \in Tokens, target \in Tokens, hard \in BOOLEAN :
                DeleteUserRead(tok, target, hard)
    \/ \E p \in DOMAIN inflight : InsertUser(p)
    \/ \E p \in DOMAIN inflight : UpdateUserWrite(p)
    \/ \E p \in DOMAIN inflight : DeleteUserWrite(p)

SpecAdminRace == Init /\ [][NextAdminRace]_vars

\* C29: in every reachable state some stored user is an active admin.
C29_ActiveAdminRemains ==
    \E u \in DOMAIN users : users[u].role = "ADMIN" /\ users[u].isActive

\* ------------------------------------------------------------------------
\* POST /api/files as store and disk steps: for each accepted file writeFile,
\* then prisma.file.create
\* ------------------------------------------------------------------------
\* The response of an upload that ends before the loop over the files, 0 if
\* none
UploadRefusal(tok, todoId, batch) ==
    IF ~authenticateUser(tok) THEN 401
    ELSE IF Len(batch) = 0 \/ Len(batch) > MaxFilesPerUpload THEN 400
    ELSE IF todoId # NoTodo /\ todoId \notin DOMAIN todos THEN 404
    ELSE IF todoId # NoTodo /\ todos[todoId].creatorId # tok /\ todos[todoId].assigneeId # tok
    THEN 403
    ELSE 0

\* The handler up to the loop
UploadStart(tok, todoId, batch) ==
    /\ UNCHANGED <<store, nextTodoId, nextNotifId, nextFileId>>
    /\ IF UploadRefusal(tok, todoId, batch) # 0
       THEN Respond("UploadFiles", tok, todoId, "none", UploadRefusal(tok, todoId, batch),
                    FALSE)
       ELSE /\ inflight' = inflight @@
                  (FreeSlot :> [op |-> "UploadFiles", actor |-> tok, todoId |-> todoId,
                                rest |-> batch, written |-> NoFileId, uploadedFiles |-> 0,
                                errors |-> <<>>])
            /\ UNCHANGED <<lastReq, requests, profileDir>>

\* The files of the form from the first accepted one on
RECURSIVE SkipRejected(_)
SkipRejected(batch) ==
    IF batch = <<>> \/ FileAccepted(Head(batch)) THEN batch ELSE SkipRejected(Tail(batch))

\* The loop up to the next writeFile: the rejected files before it add their
\* errors; when no file is left the request is answered
UploadWriteObject(p) ==
    /\ p \in DOMAIN inflight
    /\ inflight[p].op = "UploadFiles"
    /\ inflight[p].written = NoFileId
    /\ UNCHANGED <<users, todos, files, notifications, nextTodoId, nextNotifId, profileDir>>
    /\ LET r == inflight[p]
           rest == SkipRejected(r.rest)
           errors == r.errors \o UploadErrors(SubSeq(r.rest, 1, Len(r.rest) - Len(rest)))
       IN  IF rest = <<>>
           THEN /\ inflight' = Without(inflight, {p})
                /\ UNCHANGED <<disk, nextFileId>>
                /\ lastReq' = [op |-> "UploadFiles", actor |-> r.actor, todoId |-> r.todoId,
                               userId |-> "none",
                               code |-> IF r.uploadedFiles = 0 THEN 400 ELSE 201,
                               threw |-> FALSE, fileId |-> NoFileId, detail |-> errors,
                               notifId |-> NoNotification]
                /\ requests' = requests + 1
           ELSE /\ disk' = disk \cup {nextFileId}
                /\ nextFileId' = nextFileId + 1
                /\ inflight' = [inflight EXCEPT ![p].rest = rest, ![p].errors = errors,
                                                ![p].written = nextFileId]
                /\ UNCHANGED <<lastReq, requests>>

\* prisma.file.create for the object just written; the foreign keys make it
\* throw when the uploader or the todo is gone, which is caught for the file
UploadInsertRow(p) ==
    /\ p \in DOMAIN inflight
    /\ inflight[p].op = "UploadFiles"
    /\ inflight[p].written # NoFileId
    /\ UNCHANGED <<users, todos, notifications, disk, nextTodoId, nextNotifId, nextFileId,
                   profileDir, lastReq, requests>>
    /\ LET r == inflight[p]
       IN  IF r.actor \in DOMAIN users /\ (r.todoId = NoTodo \/ r.todoId \in DOMAIN todos)
           THEN /\ files' = files @@ (r.written :> [fileName |-> r.written,
                                                    uploadedById |-> r.actor,
                                                    todoId |-> r.todoId])
                /\ inflight' = [inflight EXCEPT ![p].rest = Tail(r.rest),
                                                ![p].written = NoFileId,
                                                ![p].uploadedFiles = @ + 1]
           ELSE /\ UNCHANGED files
                /\ inflight' = [inflight EXCEPT ![p].rest = Tail(r.rest),
                                                ![p].written = NoFileId,
                                                ![p].errors = @ \o <<"Failed to upload">>]

LifecycleBatches == {<<GoodFile>>, <<ScriptFile, GoodFile>>}

\* The two seeded users without the admin role, who create, upload and delete
LifecycleUsers == {"john", "jane"}

\* Upload, file deletion and todo deletion, each split at its store and disk
\* accesses, with todos to link the files to
NextFileLifecycle ==
    \/ /\ Started < ScenarioRequests
       /\ \/ \E tok \in LifecycleUsers, assigneeId \in LifecycleUsers :
                CreateTodo(tok, [title |-> <<"a">>, description |-> Undefined,
                                 assigneeId |-> assigneeId, dueDate |-> NoValue,
                                 priority |-> NoValue], 0)
          \/ \E tok \in LifecycleUsers, t \in {NoTodo} \cup RequestTodoIds,
                batch \in LifecycleBatches : UploadStart(tok, t, batch)
          \/ \E tok \in LifecycleUsers, f \in RequestFileIds : DeleteFile(tok, f)
          \/ \E tok \in LifecycleUsers, t \in RequestTodoIds : DeleteTodo(tok, t, 0)
    \/ \E p \in DOMAIN inflight : UploadWriteObject(p)
    \/ \E p \in DOMAIN inflight : UploadInsertRow(p)
    \/ \E p \in DOMAIN inflight, failed \in BOOLEAN : RemoveFromDisk(p, failed)

SpecFileLifecycle == Init /\ [][NextFileLifecycle]_vars

\* The names of the objects that have a row
Catalogued(table) == {table[f].fileName : f \in DOMAIN table}

\* C30: after every step each file row has its object on disk, and a todo
\* deletion removes the rows linked to the todo and no object.
C30_RowsHaveObjects ==
    [][/\ Catalogued(files') \subseteq disk'
       /\ (lastReq'.op = "DeleteTodo" /\ requests' = requests + 1) => disk' = disk]_vars

\* C30 witness: a todo with an uploaded file was deleted; the row is gone by
\* the cascade and its object is on disk without a row.
C30_Witness ==
    /\ lastReq.op = "DeleteTodo" /\ lastReq.code = 200
    /\ lastReq.todoId \notin DOMAIN todos
    /\ inflight = <<>>
    /\ disk \ Catalogued(files) # {}

====
